---- MODULE Spec2Model ----
(***************************************************************************)
(* Verification model of the NYSE-XDP replay engine: the per-symbol limit  *)
(* order book (src/src/order_book.hpp) and the per-symbol execution        *)
(* simulator (src/src/per_symbol_sim.cpp).                                 *)
(*                                                                         *)
(* Prices are the raw wire integers (micro-dollars, parse_price multiplies *)
(* by 1e-6), so every price comparison of the source is an integer         *)
(* comparison here.  uint32_t quantities are represented by their residue  *)
(* in (-2^31, 2^31): a subtraction that wraps below zero yields a negative *)
(* representative, and the unsigned comparisons of the source are U32Le /  *)
(* U32Gt, which order negative representatives above all others.           *)
(***************************************************************************)
EXTENDS Integers, Sequences, FiniteSets, TLC

(***************************************************************************)
(* Bounds of the model.                                                    *)
(***************************************************************************)
MaxId == 2
MaxPriceIdx == 2
MaxVolIdx == 2
MaxEvents == 3
MaxReplayLen == 2

PriceStep == 10000
VolStep == 150

Ids == 1..MaxId
Prices == {i * PriceStep : i \in 1..MaxPriceIdx}
Volumes == {i * VolStep : i \in 0..MaxVolIdx}
Sides == {"B", "S"}

VARIABLES
  book,        \* the OrderBook object
  checkpoint,  \* the OrderBookCheckpoint last taken (or NoCheckpoint)
  lastOp,      \* the operation performed by the last step, with its inputs
  nEvents,     \* number of events applied so far
  replay,      \* record / clear / replay of a sequence of updates
  sim          \* the PerSymbolSim object around the book

vars == <<book, checkpoint, lastOp, nEvents, replay, sim>>

(***************************************************************************)
(* Finite maps (std::map / std::unordered_map).                            *)
(***************************************************************************)
EmptyMap == [x \in {} |-> 0]
Has(m, k) == k \in DOMAIN m
Put(m, k, v) == [x \in (DOMAIN m) \cup {k} |-> IF x = k THEN v ELSE m[x]]
Erase(m, k) == [x \in (DOMAIN m) \ {k} |-> m[x]]
\* operator[] of a std::map: the value, value-initialised when absent
At(m, k, d) == IF Has(m, k) THEN m[k] ELSE d

RECURSIVE SumOver(_, _)
SumOver(m, S) ==
  IF S = {} THEN 0
  ELSE LET k == CHOOSE x \in S : TRUE IN m[k] + SumOver(m, S \ {k})

MapSum(m) == SumOver(m, DOMAIN m)

SetMax(S) == CHOOSE x \in S : \A y \in S : y <= x
SetMin(S) == CHOOSE x \in S : \A y \in S : x <= y

(***************************************************************************)
(* uint32_t comparisons on residue representatives.                        *)
(***************************************************************************)
U32Le(a, b) == IF (a < 0) = (b < 0) THEN a <= b ELSE b < 0
U32Gt(a, b) == ~U32Le(a, b)

(***************************************************************************)
(* OrderBook::ToxicityMetrics                                              *)
(***************************************************************************)
ZeroMetrics ==
  [adds |-> 0, cancels |-> 0, total_volume_added |-> 0,
   total_volume_cancelled |-> 0, ping_count |-> 0, large_order_count |-> 0,
   odd_lot_count |-> 0, high_precision_price_count |-> 0,
   resistance_level_count |-> 0]

\* std::round(price * 100.0) in cents, for a price in micro-dollars
RoundToCents(price) == (price + 5000) \div 10000

AbsVal(x) == IF x < 0 THEN -x ELSE x

update_toxicity_on_add(metrics, price, volume) ==
  LET decimal_part == price % 1000000
      rounded_2dec == RoundToCents(price) * 10000
      decimal_rounded == RoundToCents(decimal_part)
  IN [metrics EXCEPT
        !.adds = @ + 1,
        !.total_volume_added = @ + volume,
        !.ping_count = IF volume < 10 THEN @ + 1 ELSE @,
        !.large_order_count = IF volume > 200 THEN @ + 1 ELSE @,
        !.odd_lot_count = IF volume % 100 # 0 THEN @ + 1 ELSE @,
        !.high_precision_price_count =
            IF AbsVal(price - rounded_2dec) > 100 THEN @ + 1 ELSE @,
        !.resistance_level_count =
            IF decimal_rounded \in {95, 99, 98, 1, 5} THEN @ + 1 ELSE @]

(***************************************************************************)
(* OrderBook                                                               *)
(***************************************************************************)
ZeroStats ==
  [best_bid |-> 0, best_ask |-> 0, spread |-> 0, mid_price |-> 0,
   total_bid_qty |-> 0, total_ask_qty |-> 0, bid_levels |-> 0,
   ask_levels |-> 0]

EmptyBook ==
  [bids_ |-> EmptyMap, asks_ |-> EmptyMap, active_orders_ |-> EmptyMap,
   bid_toxicity_ |-> EmptyMap, ask_toxicity_ |-> EmptyMap,
   last_traded_price_ |-> 0, last_traded_volume_ |-> 0,
   total_bid_volume_ |-> 0, total_ask_volume_ |-> 0,
   stats_ |-> ZeroStats]

update_stats(b) ==
  LET bb == IF DOMAIN b.bids_ = {} THEN 0 ELSE SetMax(DOMAIN b.bids_)
      ba == IF DOMAIN b.asks_ = {} THEN 0 ELSE SetMin(DOMAIN b.asks_)
      both == bb > 0 /\ ba > 0
  IN [b EXCEPT !.stats_ =
        [best_bid |-> bb, best_ask |-> ba,
         spread |-> IF both THEN ba - bb ELSE 0,
         mid_price |-> IF both THEN (bb + ba) \div 2 ELSE 0,
         total_bid_qty |-> b.total_bid_volume_,
         total_ask_qty |-> b.total_ask_volume_,
         bid_levels |-> Cardinality(DOMAIN b.bids_),
         ask_levels |-> Cardinality(DOMAIN b.asks_)]]

\* a removal whose erase branch leaves the running total untouched
remove_volume_from_bids_stale_total(b, price, volume) ==
  IF Has(b.bids_, price)
  THEN IF U32Le(b.bids_[price], volume)
       THEN [b EXCEPT !.bids_ = Erase(@, price)]
       ELSE [b EXCEPT !.bids_ = Put(@, price, @[price] - volume),
                      !.total_bid_volume_ = @ - volume]
  ELSE b

remove_volume_from_bids(b, price, volume) ==
  IF Has(b.bids_, price)
  THEN IF U32Le(b.bids_[price], volume)
       THEN [b EXCEPT !.total_bid_volume_ = @ - b.bids_[price],
                      !.bids_ = Erase(@, price)]
       ELSE [b EXCEPT !.bids_ = Put(@, price, @[price] - volume),
                      !.total_bid_volume_ = @ - volume]
  ELSE b

\* a removal that erases a level only when it falls strictly below the volume
remove_volume_from_asks_strict(b, price, volume) ==
  IF Has(b.asks_, price)
  THEN IF ~U32Le(volume, b.asks_[price])
       THEN [b EXCEPT !.total_ask_volume_ = @ - b.asks_[price],
                      !.asks_ = Erase(@, price)]
       ELSE [b EXCEPT !.asks_ = Put(@, price, @[price] - volume),
                      !.total_ask_volume_ = @ - volume]
  ELSE b

remove_volume_from_asks(b, price, volume) ==
  IF Has(b.asks_, price)
  THEN IF U32Le(b.asks_[price], volume)
       THEN [b EXCEPT !.total_ask_volume_ = @ - b.asks_[price],
                      !.asks_ = Erase(@, price)]
       ELSE [b EXCEPT !.asks_ = Put(@, price, @[price] - volume),
                      !.total_ask_volume_ = @ - volume]
  ELSE b

\* a clear that forgets the per-level toxicity maps
clear_keeps_toxicity(b) ==
  update_stats([b EXCEPT !.bids_ = EmptyMap, !.asks_ = EmptyMap,
                         !.active_orders_ = EmptyMap,
                         !.last_traded_price_ = 0,
                         !.last_traded_volume_ = 0,
                         !.total_bid_volume_ = 0,
                         !.total_ask_volume_ = 0])

clear(b) ==
  update_stats([b EXCEPT !.bids_ = EmptyMap, !.asks_ = EmptyMap,
                         !.active_orders_ = EmptyMap,
                         !.bid_toxicity_ = EmptyMap,
                         !.ask_toxicity_ = EmptyMap,
                         !.last_traded_price_ = 0,
                         !.last_traded_volume_ = 0,
                         !.total_bid_volume_ = 0,
                         !.total_ask_volume_ = 0])

add_order(b, order_id, price, volume, side) ==
  LET b1 == IF side = "B"
            THEN [b EXCEPT
                    !.bids_ = Put(@, price, At(@, price, 0) + volume),
                    !.total_bid_volume_ = @ + volume,
                    !.bid_toxicity_ =
                       Put(@, price,
                           update_toxicity_on_add(At(@, price, ZeroMetrics),
                                                  price, volume))]
            ELSE [b EXCEPT
                    !.asks_ = Put(@, price, At(@, price, 0) + volume),
                    !.total_ask_volume_ = @ + volume,
                    !.ask_toxicity_ =
                       Put(@, price,
                           update_toxicity_on_add(At(@, price, ZeroMetrics),
                                                  price, volume))]
      b2 == [b1 EXCEPT !.active_orders_ =
               Put(@, order_id,
                   [order_id |-> order_id, price |-> price,
                    volume |-> volume, side |-> side])]
  IN update_stats(b2)

modify_order(b, order_id, new_price, new_volume) ==
  IF ~Has(b.active_orders_, order_id) THEN b
  ELSE
    LET order == b.active_orders_[order_id]
        b1 == IF order.side = "B"
              THEN LET r == remove_volume_from_bids(b, order.price, order.volume)
                   IN [r EXCEPT
                         !.bids_ = Put(@, new_price, At(@, new_price, 0) + new_volume),
                         !.total_bid_volume_ = @ + new_volume]
              ELSE LET r == remove_volume_from_asks(b, order.price, order.volume)
                   IN [r EXCEPT
                         !.asks_ = Put(@, new_price, At(@, new_price, 0) + new_volume),
                         !.total_ask_volume_ = @ + new_volume]
        b2 == [b1 EXCEPT !.active_orders_[order_id].price = new_price,
                         !.active_orders_[order_id].volume = new_volume]
    IN update_stats(b2)

\* a delete that counts the cancel but not the cancelled volume
delete_order_no_volume(b, order_id) ==
  IF ~Has(b.active_orders_, order_id) THEN b
  ELSE
    LET order == b.active_orders_[order_id]
        b1 == IF order.side = "B"
              THEN LET m == At(b.bid_toxicity_, order.price, ZeroMetrics)
                       t == [b EXCEPT !.bid_toxicity_ =
                               Put(@, order.price, [m EXCEPT !.cancels = @ + 1])]
                   IN remove_volume_from_bids(t, order.price, order.volume)
              ELSE LET m == At(b.ask_toxicity_, order.price, ZeroMetrics)
                       t == [b EXCEPT !.ask_toxicity_ =
                               Put(@, order.price, [m EXCEPT !.cancels = @ + 1])]
                   IN remove_volume_from_asks(t, order.price, order.volume)
        b2 == [b1 EXCEPT !.active_orders_ = Erase(@, order_id)]
    IN update_stats(b2)

delete_order(b, order_id) ==
  IF ~Has(b.active_orders_, order_id) THEN b
  ELSE
    LET order == b.active_orders_[order_id]
        b1 == IF order.side = "B"
              THEN LET m == At(b.bid_toxicity_, order.price, ZeroMetrics)
                       t == [b EXCEPT !.bid_toxicity_ =
                               Put(@, order.price,
                                   [m EXCEPT !.cancels = @ + 1,
                                             !.total_volume_cancelled = @ + order.volume])]
                   IN remove_volume_from_bids(t, order.price, order.volume)
              ELSE LET m == At(b.ask_toxicity_, order.price, ZeroMetrics)
                       t == [b EXCEPT !.ask_toxicity_ =
                               Put(@, order.price,
                                   [m EXCEPT !.cancels = @ + 1,
                                             !.total_volume_cancelled = @ + order.volume])]
                   IN remove_volume_from_asks(t, order.price, order.volume)
        b2 == [b1 EXCEPT !.active_orders_ = Erase(@, order_id)]
    IN update_stats(b2)

\* an execute that reports the order's volume as the last traded volume
execute_order_reports_order_volume(b, order_id, executed_qty, trade_price) ==
  IF ~Has(b.active_orders_, order_id) THEN b
  ELSE
    LET order == b.active_orders_[order_id]
        b1 == IF U32Gt(order.volume, executed_qty)
              THEN LET o == [b EXCEPT !.active_orders_[order_id].volume = @ - executed_qty]
                   IN IF order.side = "B"
                      THEN [o EXCEPT
                              !.bids_ = Put(@, order.price,
                                            At(@, order.price, 0) - executed_qty),
                              !.total_bid_volume_ = @ - executed_qty]
                      ELSE [o EXCEPT
                              !.asks_ = Put(@, order.price,
                                            At(@, order.price, 0) - executed_qty),
                              !.total_ask_volume_ = @ - executed_qty]
              ELSE LET r == IF order.side = "B"
                            THEN remove_volume_from_bids(b, order.price, order.volume)
                            ELSE remove_volume_from_asks(b, order.price, order.volume)
                   IN [r EXCEPT !.active_orders_ = Erase(@, order_id)]
        b2 == [b1 EXCEPT !.last_traded_price_ = trade_price,
                         !.last_traded_volume_ = order.volume]
    IN update_stats(b2)

execute_order(b, order_id, executed_qty, trade_price) ==
  IF ~Has(b.active_orders_, order_id) THEN b
  ELSE
    LET order == b.active_orders_[order_id]
        b1 == IF U32Gt(order.volume, executed_qty)
              THEN \* partial fill
                   LET o == [b EXCEPT !.active_orders_[order_id].volume = @ - executed_qty]
                   IN IF order.side = "B"
                      THEN [o EXCEPT
                              !.bids_ = Put(@, order.price,
                                            At(@, order.price, 0) - executed_qty),
                              !.total_bid_volume_ = @ - executed_qty]
                      ELSE [o EXCEPT
                              !.asks_ = Put(@, order.price,
                                            At(@, order.price, 0) - executed_qty),
                              !.total_ask_volume_ = @ - executed_qty]
              ELSE \* full fill
                   LET r == IF order.side = "B"
                            THEN remove_volume_from_bids(b, order.price, order.volume)
                            ELSE remove_volume_from_asks(b, order.price, order.volume)
                   IN [r EXCEPT !.active_orders_ = Erase(@, order_id)]
        b2 == [b1 EXCEPT !.last_traded_price_ = trade_price,
                         !.last_traded_volume_ = executed_qty]
    IN update_stats(b2)

get_atomic_snapshot(b) ==
  [bids |-> b.bids_, asks |-> b.asks_, active_orders |-> b.active_orders_]

restore_from_snapshot(b, bids, asks, active_orders) ==
  update_stats([b EXCEPT !.bids_ = bids, !.asks_ = asks,
                         !.active_orders_ = active_orders,
                         !.bid_toxicity_ = EmptyMap,
                         !.ask_toxicity_ = EmptyMap,
                         !.total_bid_volume_ = MapSum(bids),
                         !.total_ask_volume_ = MapSum(asks)])

(***************************************************************************)
(* The book driven by a stream of updates.  An update carries the fields   *)
(* of OrderBookUpdate; ApplyUpdate is the switch that applies one.         *)
(***************************************************************************)
AddUpdates ==
  {[type |-> "ADD", order_id |-> id, price |-> p, volume |-> v, side |-> s] :
     id \in Ids, p \in Prices, v \in Volumes, s \in Sides}
ModifyUpdates ==
  {[type |-> "MODIFY", order_id |-> id, price |-> p, volume |-> v] :
     id \in Ids, p \in Prices, v \in Volumes}
DeleteUpdates ==
  {[type |-> "DELETE", order_id |-> id] : id \in Ids}
ExecuteUpdates ==
  {[type |-> "EXECUTE", order_id |-> id, price |-> p, volume |-> v] :
     id \in Ids, p \in Prices, v \in Volumes}
ReplaceUpdates ==
  {[type |-> "REPLACE", order_id |-> id, new_order_id |-> nid, price |-> p,
    volume |-> v, side |-> s] :
     id \in Ids, nid \in Ids, p \in Prices, v \in Volumes, s \in Sides}

ApplyUpdate(b, update) ==
  CASE update.type = "ADD" ->
         add_order(b, update.order_id, update.price, update.volume, update.side)
    [] update.type = "MODIFY" ->
         modify_order(b, update.order_id, update.price, update.volume)
    [] update.type = "DELETE" ->
         delete_order(b, update.order_id)
    [] update.type = "EXECUTE" ->
         execute_order(b, update.order_id, update.volume, update.price)
    [] update.type = "REPLACE" ->
         add_order(delete_order(b, update.order_id), update.new_order_id,
                   update.price, update.volume, update.side)

NoCheckpoint == [taken |-> FALSE]
NoOp == [op |-> "none"]
NotReplaying == [phase |-> "off"]
NoSim == [phase |-> "off"]

Resting(b, id) == Has(b.active_orders_, id)

\* the update of a step, with whether its order id was resting before it
Performed(update) == [op |-> update.type, u |-> update,
                      found |-> Resting(book, update.order_id)]

Init ==
  /\ book = EmptyBook
  /\ checkpoint = NoCheckpoint
  /\ lastOp = NoOp
  /\ nEvents = 0
  /\ replay = NotReplaying
  /\ sim = NoSim

Add ==
  /\ nEvents < MaxEvents
  /\ \E update \in AddUpdates :
       /\ book' = ApplyUpdate(book, update)
       /\ lastOp' = Performed(update)
  /\ nEvents' = nEvents + 1
  /\ UNCHANGED <<checkpoint, replay, sim>>

Modify ==
  /\ nEvents < MaxEvents
  /\ \E update \in ModifyUpdates :
       /\ book' = ApplyUpdate(book, update)
       /\ lastOp' = Performed(update)
  /\ nEvents' = nEvents + 1
  /\ UNCHANGED <<checkpoint, replay, sim>>

Delete ==
  /\ nEvents < MaxEvents
  /\ \E update \in DeleteUpdates :
       /\ book' = ApplyUpdate(book, update)
       /\ lastOp' = Performed(update)
  /\ nEvents' = nEvents + 1
  /\ UNCHANGED <<checkpoint, replay, sim>>

Execute ==
  /\ nEvents < MaxEvents
  /\ \E update \in ExecuteUpdates :
       /\ book' = ApplyUpdate(book, update)
       /\ lastOp' = Performed(update)
  /\ nEvents' = nEvents + 1
  /\ UNCHANGED <<checkpoint, replay, sim>>

Replace ==
  /\ nEvents < MaxEvents
  /\ \E update \in ReplaceUpdates :
       /\ book' = ApplyUpdate(book, update)
       /\ lastOp' = Performed(update)
  /\ nEvents' = nEvents + 1
  /\ UNCHANGED <<checkpoint, replay, sim>>

Clear ==
  /\ nEvents < MaxEvents
  /\ book' = clear(book)
  /\ lastOp' = [op |-> "CLEAR"]
  /\ nEvents' = nEvents + 1
  /\ UNCHANGED <<checkpoint, replay, sim>>

CreateCheckpoint ==
  /\ nEvents < MaxEvents
  /\ ~checkpoint.taken
  /\ checkpoint' = [taken |-> TRUE, snap |-> get_atomic_snapshot(book)]
  /\ lastOp' = [op |-> "CHECKPOINT"]
  /\ UNCHANGED <<book, nEvents, replay, sim>>

Restore ==
  /\ nEvents < MaxEvents
  /\ checkpoint.taken
  /\ book' = restore_from_snapshot(book, checkpoint.snap.bids,
                                   checkpoint.snap.asks,
                                   checkpoint.snap.active_orders)
  /\ lastOp' = [op |-> "RESTORE"]
  /\ nEvents' = nEvents + 1
  /\ UNCHANGED <<checkpoint, replay, sim>>

Next ==
  \/ Add
  \/ Modify
  \/ Delete
  \/ Execute
  \/ Replace
  \/ Clear
  \/ CreateCheckpoint
  \/ Restore

Spec == Init /\ [][Next]_vars

(***************************************************************************)
(* Record, clear, replay: a sequence S of updates is applied to the empty  *)
(* book and recorded, the book is cleared, and S is applied again.         *)
(***************************************************************************)
InitReplay ==
  /\ book = EmptyBook
  /\ checkpoint = NoCheckpoint
  /\ lastOp = NoOp
  /\ nEvents = 0
  /\ replay = [phase |-> "record", S |-> <<>>, B |-> EmptyBook, pos |-> 0]
  /\ sim = NoSim

Record ==
  /\ replay.phase = "record"
  /\ Len(replay.S) < MaxReplayLen
  /\ \E update \in AddUpdates \cup ModifyUpdates \cup DeleteUpdates
                     \cup ExecuteUpdates :
       /\ book' = ApplyUpdate(book, update)
       /\ lastOp' = Performed(update)
       /\ replay' = [replay EXCEPT !.S = Append(@, update)]
  /\ UNCHANGED <<checkpoint, nEvents, sim>>

ClearRecorded ==
  /\ replay.phase = "record"
  /\ book' = clear(book)
  /\ lastOp' = [op |-> "CLEAR"]
  /\ replay' = [replay EXCEPT !.phase = "replay", !.B = book, !.pos = 1]
  /\ UNCHANGED <<checkpoint, nEvents, sim>>

ReplayOne ==
  /\ replay.phase = "replay"
  /\ replay.pos <= Len(replay.S)
  /\ book' = ApplyUpdate(book, replay.S[replay.pos])
  /\ lastOp' = Performed(replay.S[replay.pos])
  /\ replay' = [replay EXCEPT !.pos = @ + 1]
  /\ UNCHANGED <<checkpoint, nEvents, sim>>

NextReplay ==
  \/ Record
  \/ ClearRecorded
  \/ ReplayOne

SpecReplay == InitReplay /\ [][NextReplay]_vars

(***************************************************************************)
(* Read accessors used by the properties.                                  *)
(***************************************************************************)
get_toxicity_metrics(b, price, side) ==
  IF side = "B"
  THEN At(b.bid_toxicity_, price, ZeroMetrics)
  ELSE At(b.ask_toxicity_, price, ZeroMetrics)

Ladder(b, side) == IF side = "B" THEN b.bids_ ELSE b.asks_

\* ids of the orders resting at a price on a side (side as add_order files it)
OrdersAt(b, side, price) ==
  {id \in DOMAIN b.active_orders_ :
     /\ b.active_orders_[id].price = price
     /\ (b.active_orders_[id].side = "B") = (side = "B")}

RECURSIVE OrderVolumeSum(_, _)
OrderVolumeSum(b, S) ==
  IF S = {} THEN 0
  ELSE LET id == CHOOSE x \in S : TRUE
       IN b.active_orders_[id].volume + OrderVolumeSum(b, S \ {id})

(***************************************************************************)
(* The per-symbol execution simulator (src/src/per_symbol_sim.cpp).        *)
(*                                                                         *)
(* Times are nanoseconds.  Prices and spreads are micro-dollars; the       *)
(* adverse-selection PnL is kept in units of 1e-4 dollar.  The             *)
(* configuration is the default ExecutionModelConfig, with fill_mode       *)
(* chosen when the simulation starts.                                      *)
(***************************************************************************)
quote_update_interval_us == 10
quote_exposure_window_us == 10
adverse_lookforward_us == 250
adverse_selection_multiplier_pct == 3   \* 0.03
min_spread_to_trade == 10000            \* 0.01 dollar
max_spread_to_trade == 200000           \* 0.20 dollar
min_depth_to_trade == 100
max_daily_loss_per_symbol == 50000000   \* 5000 dollars, in 1e-4 dollar
MinLatencyNs == 5000                    \* the 5 us floor of sample_latency_ns
FillModes == {"Cross", "Match"}

\* MarketMakerStrategy parameters (market_maker.hpp)
base_spread_ == 10000
min_spread_ == 10000
max_spread_ == 100000
base_quote_size_ == 1000
max_position_ == 100000
tick_size_ == 10000
toxicity_quote_threshold_pct == 75      \* 0.75
rebate_per_share == 2420                \* 0.0025 - 0.00008 dollar

\* Bounds of the simulator runs.
MaxSimEvents == 2
MaxSimVolume == 1000
StartNs == 100000
ShortStepNs == 4000
LongStepNs == 12000
LongLatencyNs == 12000
QueueAheadDraw == 200
HighToxicityPct == 80

SimVolumes == {VolStep, MaxSimVolume}
TimeSteps == {ShortStepNs, LongStepNs}
LatencyDraws == {MinLatencyNs, LongLatencyNs}
ToxicityDraws == {0, HighToxicityPct}

Strategies == {"baseline", "toxicity"}
VoSides == {"bid", "ask"}

NewVirtualOrder ==
  [price |-> 0, size |-> 0, remaining |-> 0, active_at_ns |-> 0,
   exposed_until_ns |-> 0, queue_ahead |-> 0, live |-> FALSE]

NewRiskState ==
  [halted |-> FALSE, total_fills |-> 0, total_adverse_pnl |-> 0,
   adverse_fills |-> 0]

NewQuote ==
  [bid_price |-> 0, ask_price |-> 0, bid_size |-> 0, ask_size |-> 0,
   is_quoted |-> FALSE]

NewStrategy ==
  [inventory_ |-> 0, avg_entry_price_ |-> 0, realized_pnl_ |-> 0,
   fee_per_share_ |-> 0, current_quotes_ |-> NewQuote,
   quotes_suppressed |-> 0,            \* stats_.quotes_suppressed
   total_volume_traded |-> 0]          \* stats_.total_volume_traded

\* the strategy as ensure_init leaves it: the net fee is the rebate, negated
SimStrategy == [NewStrategy EXCEPT !.fee_per_share_ = -rebate_per_share]

\* the PerSymbolSim after ensure_init, before its first message
NewSim(fill_mode) ==
  [phase |-> "on",
   fill_mode |-> fill_mode,
   order_info |-> EmptyMap,
   eligible_to_trade |-> TRUE,
   last_quote_update_ns |-> 0,
   clock_ns |-> StartNs,   \* capture timestamp of the last packet
   state |-> [s \in Strategies |-> [v \in VoSides |-> NewVirtualOrder]],
   risk |-> [s \in Strategies |-> NewRiskState],
   mm |-> [s \in Strategies |-> SimStrategy],
   pending_fills |-> [s \in Strategies |-> <<>>]]

check_eligibility(b) ==
  LET stats == b.stats_
  IN /\ ~(stats.best_bid <= 0 \/ stats.best_ask <= 0)
     /\ ~(stats.spread < min_spread_to_trade)
     /\ ~(stats.spread > max_spread_to_trade)
     /\ ~U32Gt(min_depth_to_trade, stats.total_bid_qty)
     /\ ~U32Gt(min_depth_to_trade, stats.total_ask_qty)

\* realized_pnl and unrealized_pnl of SymbolRiskState are never written by
\* the simulator, so the total is the adverse-selection PnL
check_risk_limits(risk) ==
  LET total_pnl == 0 + 0 + risk.total_adverse_pnl
  IN IF total_pnl < -max_daily_loss_per_symbol
     THEN [risk EXCEPT !.halted = TRUE]
     ELSE risk

RiskLimitsPass(risk) ==
  ~(0 + 0 + risk.total_adverse_pnl < -max_daily_loss_per_symbol)

\* measure_adverse_selection, fill by fill: whether the lookforward of a
\* pending fill has elapsed, and the adverse move it is charged for
FillMeasured(fill, now_ns) ==
  LET elapsed_us == (now_ns - fill.fill_time_ns) \div 1000
  IN ~(elapsed_us < adverse_lookforward_us)

AdverseMove(fill, current_mid) ==
  LET price_change == current_mid - fill.mid_price_at_fill
  IN IF fill.is_buy THEN -price_change ELSE price_change

FillCharged(fill, current_mid, now_ns) ==
  /\ FillMeasured(fill, now_ns)
  /\ ~(current_mid <= 0)
  /\ AdverseMove(fill, current_mid) > 0

AdversePnl(fill, current_mid) ==
  -((AdverseMove(fill, current_mid) * fill.fill_qty
       * adverse_selection_multiplier_pct) \div 10000)

RECURSIVE AdversePnlSum(_, _, _)
AdversePnlSum(fills, I, current_mid) ==
  IF I = {} THEN 0
  ELSE LET i == CHOOSE x \in I : TRUE
       IN AdversePnl(fills[i], current_mid)
            + AdversePnlSum(fills, I \ {i}, current_mid)

\* a measurement pass that charges the elapsed fills and keeps them pending
measure_adverse_selection_keeps_fills(fills, risk, b, now_ns) ==
  LET current_mid == b.stats_.mid_price
      charged == {i \in 1..Len(fills) :
                    FillCharged(fills[i], current_mid, now_ns)}
  IN [fills |-> fills,
      risk |-> [risk EXCEPT
                  !.total_adverse_pnl =
                     @ + AdversePnlSum(fills, charged, current_mid),
                  !.adverse_fills = @ + Cardinality(charged)]]

\* a measurement pass without the forced prune of a long buffer
measure_adverse_selection_no_forced_prune(fills, risk, b, now_ns) ==
  LET current_mid == b.stats_.mid_price
      charged == {i \in 1..Len(fills) :
                    FillCharged(fills[i], current_mid, now_ns)}
      Pending(fill) == ~FillMeasured(fill, now_ns)
  IN [fills |-> SelectSeq(fills, Pending),
      risk |-> [risk EXCEPT
                  !.total_adverse_pnl =
                     @ + AdversePnlSum(fills, charged, current_mid),
                  !.adverse_fills = @ + Cardinality(charged)]]

\* the forced prune: a buffer above ForcedPruneAbove entries has all but
\* its last ForcedPruneKeeps marked as measured, uncharged
ForcedPruneAbove == 10000
ForcedPruneKeeps == 5000

\* one pass over a pending-fill buffer; measured fills leave the buffer
\* (output_dir is empty and online_learning is off, the defaults)
measure_adverse_selection(fills, risk, b, now_ns) ==
  LET current_mid == b.stats_.mid_price
      charged == {i \in 1..Len(fills) :
                    FillCharged(fills[i], current_mid, now_ns)}
      Pending(fill) == ~FillMeasured(fill, now_ns)
      kept == IF Len(fills) > ForcedPruneAbove
              THEN SubSeq(fills, Len(fills) - ForcedPruneKeeps + 1,
                          Len(fills))
              ELSE fills
  IN [fills |-> SelectSeq(kept, Pending),
      risk |-> [risk EXCEPT
                  !.total_adverse_pnl =
                     @ + AdversePnlSum(fills, charged, current_mid),
                  !.adverse_fills = @ + Cardinality(charged)]]

(***************************************************************************)
(* MarketMakerStrategy (src/src/market_maker.cpp): the quote computation.  *)
(* The average toxicity score is a floating-point function of the          *)
(* per-level counters; here it is an input of the quote update, in         *)
(* percent.                                                                *)
(***************************************************************************)
round_to_tick(price) ==
  IF price >= 0
  THEN ((2 * price + tick_size_) \div (2 * tick_size_)) * tick_size_
  ELSE -(((2 * (-price) + tick_size_) \div (2 * tick_size_)) * tick_size_)

\* -ratio * 0.02 - 0.5 * ratio * |ratio| * 0.02 with ratio = inventory / 1e5
calculate_inventory_skew(inventory) ==
  -((2 * inventory) \div 10) - ((inventory * AbsVal(inventory)) \div 1000000)

calculate_toxicity_adjusted_spread(use_toxicity_screen, avg_toxicity) ==
  IF ~use_toxicity_screen THEN base_spread_
  ELSE LET adjusted_spread == (base_spread_ * (100 + avg_toxicity)) \div 100
       IN IF adjusted_spread < min_spread_ THEN min_spread_
          ELSE IF adjusted_spread > max_spread_ THEN max_spread_
          ELSE adjusted_spread

\* the order book imbalance as a fraction num / den
calculate_obi(b) ==
  LET total_qty == b.stats_.total_bid_qty + b.stats_.total_ask_qty
  IN IF total_qty < 1 THEN [num |-> 0, den |-> 1]
     ELSE [num |-> b.stats_.total_bid_qty - b.stats_.total_ask_qty,
           den |-> total_qty]

\* in units of 5e-8 dollar: 0.35 * (s/2 + rebate - toxicity * 0.003) - risk
calculate_expected_pnl(spread, avg_toxicity, inventory_risk) ==
  7 * (spread \div 2 + rebate_per_share - 30 * avg_toxicity) - inventory_risk

should_quote_position_only(expected_pnl, inventory) ==
  AbsVal(inventory) < max_position_

should_quote(expected_pnl, inventory) ==
  expected_pnl > 10000 /\ AbsVal(inventory) < max_position_

\* gamma_risk_ * inventory^2 in units of 5e-8 dollar; above 400 shares the
\* term already exceeds every attainable spread capture, and the inventory
\* is capped there to keep the product in range
InventoryRisk(inventory) ==
  LET i == IF AbsVal(inventory) > 400 THEN 400 ELSE AbsVal(inventory)
  IN 10000 * i * i

\* update_market_data with its two averages apart: spread_toxicity is the
\* average calculate_toxicity_adjusted_spread takes over the top five levels
\* of each side, avg_toxicity what get_average_toxicity returns
update_market_data_from(m, b, use_toxicity_screen, spread_toxicity, avg_toxicity) ==
  LET book_stats == b.stats_
      obi == IF use_toxicity_screen THEN calculate_obi(b)
             ELSE [num |-> 0, den |-> 1]
      mid_price == book_stats.mid_price
      spread == calculate_toxicity_adjusted_spread(use_toxicity_screen,
                                                   spread_toxicity)
      half_spread == spread \div 2
      inventory_skew == calculate_inventory_skew(m.inventory_)
      expected_pnl == calculate_expected_pnl(spread, avg_toxicity,
                                             InventoryRisk(m.inventory_))
      suppressed == [m EXCEPT !.quotes_suppressed = @ + 1,
                              !.current_quotes_.is_quoted = FALSE,
                              !.current_quotes_.bid_size = 0,
                              !.current_quotes_.ask_size = 0]
      bid0 == round_to_tick(mid_price - half_spread + inventory_skew)
      ask0 == round_to_tick(mid_price + half_spread + inventory_skew)
      bid1 == IF bid0 >= ask0 THEN round_to_tick(mid_price - tick_size_)
              ELSE bid0
      ask1 == IF bid0 >= ask0 THEN round_to_tick(mid_price + tick_size_)
              ELSE ask0
      inv == m.inventory_
      \* inventory_pct = inventory / max_position against 0.7 and 0.3
      bid_size1 == IF 10 * inv > 7 * max_position_ THEN 0
                   ELSE IF 10 * inv > 3 * max_position_
                        THEN base_quote_size_ \div 2
                   ELSE IF 10 * inv < -7 * max_position_
                        THEN base_quote_size_ * 3
                   ELSE IF 10 * inv < -3 * max_position_
                        THEN base_quote_size_ * 2
                   ELSE base_quote_size_
      ask_size1 == IF 10 * inv > 7 * max_position_ THEN base_quote_size_ * 3
                   ELSE IF 10 * inv > 3 * max_position_
                        THEN base_quote_size_ * 2
                   ELSE IF 10 * inv < -7 * max_position_ THEN 0
                   ELSE IF 10 * inv < -3 * max_position_
                        THEN base_quote_size_ \div 2
                   ELSE base_quote_size_
      \* obi > obi_threshold_ (0.50), obi < -obi_threshold_
      obi_high == use_toxicity_screen /\ 2 * obi.num > obi.den
      obi_low == use_toxicity_screen /\ ~obi_high /\ 2 * obi.num < -obi.den
      bid_price == IF obi_low THEN round_to_tick(bid1 - tick_size_) ELSE bid1
      ask_price == IF obi_high THEN round_to_tick(ask1 + tick_size_) ELSE ask1
      bid_size == IF obi_low THEN bid_size1 \div 2 ELSE bid_size1
      ask_size == IF obi_high THEN ask_size1 \div 2 ELSE ask_size1
  IN IF book_stats.best_bid = 0 \/ book_stats.best_ask = 0
     THEN [m EXCEPT !.current_quotes_.is_quoted = FALSE]
     ELSE IF use_toxicity_screen /\ avg_toxicity > toxicity_quote_threshold_pct
     THEN suppressed
     ELSE IF use_toxicity_screen /\ ~should_quote(expected_pnl, m.inventory_)
     THEN suppressed
     ELSE [m EXCEPT !.current_quotes_ =
             [bid_price |-> bid_price, ask_price |-> ask_price,
              bid_size |-> bid_size, ask_size |-> ask_size,
              is_quoted |-> (bid_size > 0 \/ ask_size > 0)]]

\* With no override set and at most three levels on a side, both averages
\* are the same average of level scores.
update_market_data(m, b, use_toxicity_screen, avg_toxicity) ==
  update_market_data_from(m, b, use_toxicity_screen, avg_toxicity,
                          avg_toxicity)

\* The bookkeeping of a fill.  Prices are whole micro-dollars and
\* realized_pnl_ is in micro-dollars; the weighted-average entry price of a
\* position that grows is rounded down to a whole micro-dollar.  (Of the
\* fill statistics stats_, total_volume_traded is carried.)
\* a buy that covers a short and drops what is left of the fill
BuyFill_drops_overshoot(inv, entry, price, qty) ==
  IF inv >= 0
  THEN [inventory_ |-> inv + qty,
        avg_entry_price_ |-> IF inv + qty # 0
                             THEN (entry * inv + price * qty) \div (inv + qty)
                             ELSE 0,
        gain |-> 0]
  ELSE LET cover_qty == IF qty < -inv THEN qty ELSE -inv
       IN [inventory_ |-> inv + cover_qty,
           avg_entry_price_ |-> IF inv + cover_qty = 0 THEN 0 ELSE entry,
           gain |-> (entry - price) * cover_qty]

\* a buy of qty at price against inventory inv held at entry
BuyFill(inv, entry, price, qty) ==
  IF inv >= 0
  THEN [inventory_ |-> inv + qty,
        avg_entry_price_ |-> IF inv + qty # 0
                             THEN (entry * inv + price * qty) \div (inv + qty)
                             ELSE 0,
        gain |-> 0]
  ELSE LET cover_qty == IF qty < -inv THEN qty ELSE -inv
           remaining == qty - cover_qty
       IN [inventory_ |-> IF inv + cover_qty = 0 /\ remaining > 0
                          THEN remaining ELSE inv + cover_qty,
           avg_entry_price_ |-> IF inv + cover_qty = 0 /\ remaining > 0
                                THEN price
                                ELSE IF inv + cover_qty = 0 THEN 0 ELSE entry,
           gain |-> (entry - price) * cover_qty]

\* a sell that books the gain on the whole fill instead of the part closed
SellFill_gain_on_whole_fill(inv, entry, price, qty) ==
  IF inv <= 0
  THEN [inventory_ |-> inv - qty,
        avg_entry_price_ |-> IF (-inv) + qty # 0
                             THEN (entry * (-inv) + price * qty)
                                    \div ((-inv) + qty)
                             ELSE 0,
        gain |-> 0]
  ELSE LET close_qty == IF qty < inv THEN qty ELSE inv
           remaining == qty - close_qty
       IN [inventory_ |-> IF inv - close_qty = 0 /\ remaining > 0
                          THEN -remaining ELSE inv - close_qty,
           avg_entry_price_ |-> IF inv - close_qty = 0 /\ remaining > 0
                                THEN price
                                ELSE IF inv - close_qty = 0 THEN 0 ELSE entry,
           gain |-> (price - entry) * qty]

SellFill(inv, entry, price, qty) ==
  IF inv <= 0
  THEN [inventory_ |-> inv - qty,
        avg_entry_price_ |-> IF (-inv) + qty # 0
                             THEN (entry * (-inv) + price * qty)
                                    \div ((-inv) + qty)
                             ELSE 0,
        gain |-> 0]
  ELSE LET close_qty == IF qty < inv THEN qty ELSE inv
           remaining == qty - close_qty
       IN [inventory_ |-> IF inv - close_qty = 0 /\ remaining > 0
                          THEN -remaining ELSE inv - close_qty,
           avg_entry_price_ |-> IF inv - close_qty = 0 /\ remaining > 0
                                THEN price
                                ELSE IF inv - close_qty = 0 THEN 0 ELSE entry,
           gain |-> (price - entry) * close_qty]

\* the position after the fill, and the fee taken on every fill
BookFill(m, r, size) ==
  [m EXCEPT !.inventory_ = r.inventory_,
            !.avg_entry_price_ = r.avg_entry_price_,
            !.realized_pnl_ = @ + r.gain - m.fee_per_share_ * size,
            !.total_volume_traded = @ + size]

on_order_filled(m, is_buy, price, size) ==
  BookFill(m,
           IF is_buy
           THEN BuyFill(m.inventory_, m.avg_entry_price_, price, size)
           ELSE SellFill(m.inventory_, m.avg_entry_price_, price, size),
           size)

(***************************************************************************)
(* Virtual orders.  The latency sample and the queue-position sample come  *)
(* from the simulator's random generator; a draw is the pair of samples    *)
(* one update_virtual_order call consumes.                                 *)
(***************************************************************************)
NoDraw == [latency_ns |-> 0, queue_pos |-> 0]

VoChanged(vo, price, size) ==
  (~vo.live) \/ vo.price # price \/ vo.size # size \/ vo.remaining = 0

\* the depth the queue position is drawn from
VisibleDepth(b, price, side) == At(Ladder(b, side), price, 0)

calculate_queue_position(b, price, side, queue_pos) ==
  IF VisibleDepth(b, price, side) = 0 THEN 0 ELSE queue_pos

update_virtual_order_always_replaces(vo, price, size, side, now_ns, b, draw) ==
  LET price_changed == vo.price # price
  IN [price |-> price, size |-> size, remaining |-> size,
      active_at_ns |-> now_ns + draw.latency_ns,
      exposed_until_ns |->
        IF vo.live /\ price_changed
        THEN now_ns + quote_exposure_window_us * 1000
        ELSE vo.exposed_until_ns,
      queue_ahead |->
        calculate_queue_position(b, price, side, draw.queue_pos),
      live |-> (price > 0 /\ size > 0)]

update_virtual_order(vo, price, size, side, now_ns, b, draw) ==
  LET price_changed == vo.price # price
  IN IF ~VoChanged(vo, price, size) THEN vo
     ELSE [price |-> price, size |-> size, remaining |-> size,
           active_at_ns |-> now_ns + draw.latency_ns,
           exposed_until_ns |->
             IF vo.live /\ price_changed
             THEN now_ns + quote_exposure_window_us * 1000
             ELSE vo.exposed_until_ns,
           queue_ahead |->
             calculate_queue_position(b, price, side, draw.queue_pos),
           live |-> (price > 0 /\ size > 0)]

\* update_quotes, stage by stage.  MeasureStage: the cadence has elapsed;
\* adverse selection is measured on both buffers and eligibility re-checked.
MeasureStage(s, b, now_ns) ==
  [s EXCEPT
     !.last_quote_update_ns = now_ns,
     !.pending_fills =
        [x \in Strategies |->
           measure_adverse_selection(s.pending_fills[x], s.risk[x], b,
                                     now_ns).fills],
     !.risk =
        [x \in Strategies |->
           measure_adverse_selection(s.pending_fills[x], s.risk[x], b,
                                     now_ns).risk],
     !.eligible_to_trade = check_eligibility(b)]

\* check_risk_limits(toxicity_risk) runs only when the baseline passes
RiskStage(s) ==
  [s EXCEPT
     !.risk =
        [x \in Strategies |->
           IF x = "baseline" \/ RiskLimitsPass(s.risk["baseline"])
           THEN check_risk_limits(s.risk[x])
           ELSE s.risk[x]]]

QuoteStage(s, b, avg_toxicity) ==
  [s EXCEPT
     !.mm = [x \in Strategies |->
               update_market_data(s.mm[x], b, x = "toxicity", avg_toxicity)]]

AfterRiskStage(s, b, avg_toxicity) ==
  IF \E x \in Strategies : ~RiskLimitsPass(s.risk[x])
  THEN [sim |-> s, placing |-> FALSE]
  ELSE [sim |-> QuoteStage(s, b, avg_toxicity), placing |-> TRUE]

AfterMeasureStage(s, b, avg_toxicity) ==
  IF ~s.eligible_to_trade THEN [sim |-> s, placing |-> FALSE]
  ELSE AfterRiskStage(RiskStage(s), b, avg_toxicity)

\* update_quotes up to and including update_market_data; placing tells
\* whether the four update_virtual_order calls are reached
refresh_quotes(s, b, now_ns, avg_toxicity) ==
  IF now_ns - s.last_quote_update_ns < quote_update_interval_us * 1000
  THEN [sim |-> s, placing |-> FALSE]
  ELSE AfterMeasureStage(MeasureStage(s, b, now_ns), b, avg_toxicity)

QuotePrice(q, v) == IF v = "bid" THEN q.bid_price ELSE q.ask_price
QuoteSize(q, v) == IF v = "bid" THEN q.bid_size ELSE q.ask_size
BookSide(v) == IF v = "bid" THEN "B" ELSE "S"

\* the four update_virtual_order calls
PlaceQuotes(r, b, now_ns, draws) ==
  IF ~r.placing THEN r.sim
  ELSE [r.sim EXCEPT !.state =
          [x \in Strategies |->
             [v \in VoSides |->
                update_virtual_order(
                  r.sim.state[x][v],
                  QuotePrice(r.sim.mm[x].current_quotes_, v),
                  QuoteSize(r.sim.mm[x].current_quotes_, v),
                  BookSide(v), now_ns, b, draws[x][v])]]]

update_quotes(s, b, now_ns, avg_toxicity, draws) ==
  PlaceQuotes(refresh_quotes(s, b, now_ns, avg_toxicity), b, now_ns, draws)

\* the samples one update_quotes call can consume: a draw for every virtual
\* order it re-places.  The runs explore the outcomes in which the orders
\* re-placed by one call receive equal samples.
QueueDraws == {0, QueueAheadDraw}

DrawsAfter(r) ==
  IF ~r.placing
  THEN {[x \in Strategies |-> [v \in VoSides |-> NoDraw]]}
  ELSE {[x \in Strategies |->
           [v \in VoSides |->
              IF VoChanged(r.sim.state[x][v],
                           QuotePrice(r.sim.mm[x].current_quotes_, v),
                           QuoteSize(r.sim.mm[x].current_quotes_, v))
              THEN [latency_ns |-> l, queue_pos |-> q]
              ELSE NoDraw]] : l \in LatencyDraws, q \in QueueDraws}

QuoteDraws(s, b, now_ns, avg_toxicity) ==
  DrawsAfter(refresh_quotes(s, b, now_ns, avg_toxicity))

\* the toxicity scores that make a difference to one update_quotes call
ToxicityDrawsOf(s, b, now_ns) ==
  IF refresh_quotes(s, b, now_ns, 0).placing THEN ToxicityDraws ELSE {0}

(***************************************************************************)
(* Fill matching.                                                          *)
(***************************************************************************)
U32Min(a, b) == IF U32Le(a, b) THEN a ELSE b

eligible_for_fill(fill_mode, quote_px, exec_px, is_bid_side) ==
  IF fill_mode = "Match" THEN quote_px = exec_px
  ELSE IF is_bid_side THEN quote_px >= exec_px ELSE quote_px <= exec_px

\* the record try_fill_one pushes (feature vector and toxicity score, both
\* floating point, are not represented)
FillRecord(b, vo, fill_qty, is_bid_side, now_ns) ==
  [fill_time_ns |-> now_ns, fill_price |-> vo.price, fill_qty |-> fill_qty,
   is_buy |-> is_bid_side, mid_price_at_fill |-> b.stats_.mid_price]

\* fill matching without the latency check
try_fill_one_no_latency_gate(s, b, x, is_bid_side, exec_price, exec_qty, now_ns) ==
  LET v == IF is_bid_side THEN "bid" ELSE "ask"
      vo == s.state[x][v]
      in_exposure_window == now_ns < vo.exposed_until_ns
      consume == IF vo.queue_ahead > 0 /\ ~in_exposure_window
                 THEN U32Min(vo.queue_ahead, exec_qty) ELSE 0
      qty_left == exec_qty - consume
      fill_qty == U32Min(vo.remaining, qty_left)
      s1 == [s EXCEPT !.state[x][v].queue_ahead = @ - consume]
  IN IF s.risk[x].halted THEN s
     ELSE IF ~vo.live \/ vo.remaining = 0 THEN s
     ELSE IF ~eligible_for_fill(s.fill_mode, vo.price, exec_price,
                                is_bid_side) THEN s
     ELSE IF qty_left = 0 THEN s1
     ELSE IF fill_qty = 0 THEN s1
     ELSE [s1 EXCEPT
             !.state[x][v].remaining = @ - fill_qty,
             !.mm[x] = on_order_filled(@, is_bid_side, vo.price, fill_qty),
             !.risk[x].total_fills = @ + 1,
             !.pending_fills[x] =
                Append(@, FillRecord(b, vo, fill_qty, is_bid_side, now_ns))]

\* fill matching that fills from the whole execution and leaves the queue
try_fill_one_ignores_queue(s, b, x, is_bid_side, exec_price, exec_qty, now_ns) ==
  LET v == IF is_bid_side THEN "bid" ELSE "ask"
      vo == s.state[x][v]
      qty_left == exec_qty
      fill_qty == U32Min(vo.remaining, qty_left)
  IN IF s.risk[x].halted THEN s
     ELSE IF ~vo.live \/ vo.remaining = 0 THEN s
     ELSE IF now_ns < vo.active_at_ns THEN s
     ELSE IF ~eligible_for_fill(s.fill_mode, vo.price, exec_price,
                                is_bid_side) THEN s
     ELSE IF qty_left = 0 THEN s
     ELSE IF fill_qty = 0 THEN s
     ELSE [s EXCEPT
             !.state[x][v].remaining = @ - fill_qty,
             !.mm[x] = on_order_filled(@, is_bid_side, vo.price, fill_qty),
             !.risk[x].total_fills = @ + 1,
             !.pending_fills[x] =
                Append(@, FillRecord(b, vo, fill_qty, is_bid_side, now_ns))]

\* fill matching that applies the queue inside the exposure window too
try_fill_one_queue_in_window(s, b, x, is_bid_side, exec_price, exec_qty, now_ns) ==
  LET v == IF is_bid_side THEN "bid" ELSE "ask"
      vo == s.state[x][v]
      consume == IF vo.queue_ahead > 0
                 THEN U32Min(vo.queue_ahead, exec_qty) ELSE 0
      qty_left == exec_qty - consume
      fill_qty == U32Min(vo.remaining, qty_left)
      s1 == [s EXCEPT !.state[x][v].queue_ahead = @ - consume]
  IN IF s.risk[x].halted THEN s
     ELSE IF ~vo.live \/ vo.remaining = 0 THEN s
     ELSE IF now_ns < vo.active_at_ns THEN s
     ELSE IF ~eligible_for_fill(s.fill_mode, vo.price, exec_price,
                                is_bid_side) THEN s
     ELSE IF qty_left = 0 THEN s1
     ELSE IF fill_qty = 0 THEN s1
     ELSE [s1 EXCEPT
             !.state[x][v].remaining = @ - fill_qty,
             !.mm[x] = on_order_filled(@, is_bid_side, vo.price, fill_qty),
             !.risk[x].total_fills = @ + 1,
             !.pending_fills[x] =
                Append(@, FillRecord(b, vo, fill_qty, is_bid_side, now_ns))]

\* fill matching that does not look at the risk state
try_fill_one_ignores_halt(s, b, x, is_bid_side, exec_price, exec_qty, now_ns) ==
  LET v == IF is_bid_side THEN "bid" ELSE "ask"
      vo == s.state[x][v]
      in_exposure_window == now_ns < vo.exposed_until_ns
      consume == IF vo.queue_ahead > 0 /\ ~in_exposure_window
                 THEN U32Min(vo.queue_ahead, exec_qty) ELSE 0
      qty_left == exec_qty - consume
      fill_qty == U32Min(vo.remaining, qty_left)
      s1 == [s EXCEPT !.state[x][v].queue_ahead = @ - consume]
  IN IF ~vo.live \/ vo.remaining = 0 THEN s
     ELSE IF now_ns < vo.active_at_ns THEN s
     ELSE IF ~eligible_for_fill(s.fill_mode, vo.price, exec_price,
                                is_bid_side) THEN s
     ELSE IF qty_left = 0 THEN s1
     ELSE IF fill_qty = 0 THEN s1
     ELSE [s1 EXCEPT
             !.state[x][v].remaining = @ - fill_qty,
             !.mm[x] = on_order_filled(@, is_bid_side, vo.price, fill_qty),
             !.risk[x].total_fills = @ + 1,
             !.pending_fills[x] =
                Append(@, FillRecord(b, vo, fill_qty, is_bid_side, now_ns))]

\* (the Welford inventory statistics of the risk state are floating point
\* and are not represented)
try_fill_one(s, b, x, is_bid_side, exec_price, exec_qty, now_ns) ==
  LET v == IF is_bid_side THEN "bid" ELSE "ask"
      vo == s.state[x][v]
      in_exposure_window == now_ns < vo.exposed_until_ns
      consume == IF vo.queue_ahead > 0 /\ ~in_exposure_window
                 THEN U32Min(vo.queue_ahead, exec_qty) ELSE 0
      qty_left == exec_qty - consume
      fill_qty == U32Min(vo.remaining, qty_left)
      s1 == [s EXCEPT !.state[x][v].queue_ahead = @ - consume]
  IN IF s.risk[x].halted THEN s
     ELSE IF ~vo.live \/ vo.remaining = 0 THEN s
     ELSE IF now_ns < vo.active_at_ns THEN s
     ELSE IF ~eligible_for_fill(s.fill_mode, vo.price, exec_price,
                                is_bid_side) THEN s
     ELSE IF qty_left = 0 THEN s1
     ELSE IF fill_qty = 0 THEN s1
     ELSE [s1 EXCEPT
             !.state[x][v].remaining = @ - fill_qty,
             !.mm[x] = on_order_filled(@, is_bid_side, vo.price, fill_qty),
             !.risk[x].total_fills = @ + 1,
             !.pending_fills[x] =
                Append(@, FillRecord(b, vo, fill_qty, is_bid_side, now_ns))]

\* the two try_fill_one calls of maybe_fill_on_execution, on the simulator
\* as update_quotes left it
FillBoth(s, b, resting_side, exec_price, exec_qty, now_ns) ==
  IF ~s.eligible_to_trade THEN s
  ELSE IF resting_side \in {"B", "S"}
  THEN try_fill_one(try_fill_one(s, b, "baseline", resting_side = "B",
                                 exec_price, exec_qty, now_ns),
                    b, "toxicity", resting_side = "B", exec_price, exec_qty,
                    now_ns)
  ELSE s

maybe_fill_on_execution(s, b, resting_side, exec_price, exec_qty, now_ns, avg_toxicity, draws) ==
  FillBoth(update_quotes(s, b, now_ns, avg_toxicity, draws), b, resting_side,
           exec_price, exec_qty, now_ns)

(***************************************************************************)
(* Event handlers of the simulator: the part that maintains order_info     *)
(* and the virtual orders.  The book call each handler ends with is made   *)
(* by the action.  (The purge of order_info entries older than 60 s on     *)
(* ADD spans whole seconds of capture time: cleanup_stale_orders.)         *)
(***************************************************************************)
OrderInfo(side, price, volume) ==
  [side |-> side, price |-> price, volume |-> volume]

on_add(s, order_id, price, volume, side) ==
  [s EXCEPT !.order_info = Put(@, order_id, OrderInfo(side, price, volume))]

update_queue_on_cancel_any_side(s, price, volume, side) ==
  [s EXCEPT !.state =
     [x \in Strategies |->
        [v \in VoSides |->
           LET vo == s.state[x][v]
           IN IF ~vo.live \/ vo.queue_ahead = 0 THEN vo
              ELSE IF AbsVal(vo.price - price) < 100
              THEN [vo EXCEPT !.queue_ahead =
                      IF U32Gt(@, volume) THEN @ - volume ELSE 0]
              ELSE vo]]]

update_queue_on_cancel(s, price, volume, side) ==
  [s EXCEPT !.state =
     [x \in Strategies |->
        [v \in VoSides |->
           LET vo == s.state[x][v]
               is_bid == (v = "bid")
           IN IF ~vo.live \/ vo.queue_ahead = 0 THEN vo
              ELSE IF /\ (is_bid /\ side = "B") \/ (~is_bid /\ side = "S")
                      /\ AbsVal(vo.price - price) < 100
              THEN [vo EXCEPT !.queue_ahead =
                      IF U32Gt(@, volume) THEN @ - volume ELSE 0]
              ELSE vo]]]

on_modify_keeps_volume(s, order_id, price, volume) ==
  IF Has(s.order_info, order_id)
  THEN LET info == s.order_info[order_id]
           s1 == IF AbsVal(info.price - price) > 100
                 THEN update_queue_on_cancel(s, info.price, info.volume,
                                             info.side)
                 ELSE s
       IN [s1 EXCEPT !.order_info[order_id].price = price]
  ELSE s

on_modify(s, order_id, price, volume) ==
  IF Has(s.order_info, order_id)
  THEN LET info == s.order_info[order_id]
           s1 == IF AbsVal(info.price - price) > 100
                 THEN update_queue_on_cancel(s, info.price, info.volume,
                                             info.side)
                 ELSE s
       IN [s1 EXCEPT !.order_info[order_id].price = price,
                     !.order_info[order_id].volume = volume]
  ELSE s

on_delete(s, order_id) ==
  IF Has(s.order_info, order_id)
  THEN LET info == s.order_info[order_id]
           s1 == update_queue_on_cancel(s, info.price, info.volume, info.side)
       IN [s1 EXCEPT !.order_info = Erase(@, order_id)]
  ELSE s

on_replace(s, old_order_id, new_order_id, price, volume, side) ==
  LET s1 == IF Has(s.order_info, old_order_id)
            THEN LET info == s.order_info[old_order_id]
                 IN [update_queue_on_cancel(s, info.price, info.volume,
                                            info.side)
                       EXCEPT !.order_info = Erase(@, old_order_id)]
            ELSE s
  IN [s1 EXCEPT !.order_info =
        Put(@, new_order_id, OrderInfo(side, price, volume))]

\* the order_info bookkeeping that ends on_execute
TrackExecuted(s, order_id, exec_qty) ==
  IF U32Gt(s.order_info[order_id].volume, exec_qty)
  THEN [s EXCEPT !.order_info[order_id].volume = @ - exec_qty]
  ELSE [s EXCEPT !.order_info = Erase(@, order_id)]

on_execute(s, b, order_id, exec_qty, exec_price, now_ns, avg_toxicity, draws) ==
  IF Has(s.order_info, order_id)
  THEN TrackExecuted(
         maybe_fill_on_execution(s, b, s.order_info[order_id].side,
                                 exec_price, exec_qty, now_ns, avg_toxicity,
                                 draws),
         order_id, exec_qty)
  ELSE s

(***************************************************************************)
(* The simulator fed with the messages of one symbol.  Every packet        *)
(* carries the capture timestamp; only EXECUTE reads it, so only EXECUTE   *)
(* advances the clock of the model.                                        *)
(***************************************************************************)
NoDraws == [x \in Strategies |-> [v \in VoSides |-> NoDraw]]

\* The runs start when the symbol's book holds one resting bid and one
\* resting ask a tick apart, each delivered by an ADD.
SeedBook ==
  add_order(add_order(EmptyBook, 1, PriceStep, MaxSimVolume, "B"),
            2, 2 * PriceStep, MaxSimVolume, "S")

SeedSim(fill_mode) ==
  on_add(on_add(NewSim(fill_mode), 1, PriceStep, MaxSimVolume, "B"),
         2, 2 * PriceStep, MaxSimVolume, "S")

\* one EXECUTE message: the simulator handler, then the book.  lastOp keeps
\* the simulator as update_quotes left it, before fill matching.
ExecuteOutcome_book_first(s, b, order_id, exec_qty, exec_price, now_ns, avg_toxicity, draws) ==
  LET found == Has(s.order_info, order_id)
      b2 == execute_order(b, order_id, exec_qty, exec_price)
  IN [sim |-> [on_execute(s, b2, order_id, exec_qty, exec_price, now_ns,
                          avg_toxicity, draws)
                 EXCEPT !.clock_ns = now_ns],
      book |-> b2,
      lastOp |-> [op |-> "EXECUTE", order_id |-> order_id,
                  exec_qty |-> exec_qty, exec_price |-> exec_price,
                  now_ns |-> now_ns, found |-> found,
                  avg_toxicity |-> avg_toxicity,
                  resting_side |-> IF found THEN s.order_info[order_id].side
                                   ELSE "?",
                  quoted |-> IF found
                             THEN update_quotes(s, b2, now_ns, avg_toxicity,
                                                draws)
                             ELSE s]]

ExecuteOutcome(s, b, order_id, exec_qty, exec_price, now_ns, avg_toxicity, draws) ==
  LET found == Has(s.order_info, order_id)
  IN [sim |-> [on_execute(s, b, order_id, exec_qty, exec_price, now_ns,
                          avg_toxicity, draws)
                 EXCEPT !.clock_ns = now_ns],
      book |-> execute_order(b, order_id, exec_qty, exec_price),
      lastOp |-> [op |-> "EXECUTE", order_id |-> order_id,
                  exec_qty |-> exec_qty, exec_price |-> exec_price,
                  now_ns |-> now_ns, found |-> found,
                  avg_toxicity |-> avg_toxicity,
                  resting_side |-> IF found THEN s.order_info[order_id].side
                                   ELSE "?",
                  quoted |-> IF found
                             THEN update_quotes(s, b, now_ns, avg_toxicity,
                                                draws)
                             ELSE s]]

\* every EXECUTE the simulator can receive next after one of the given time
\* steps, with the samples it draws
ExecuteOutcomesIn(s, b, steps) ==
  UNION {
    LET order_id == in[1]
        now_ns == s.clock_ns + in[4]
        found == Has(s.order_info, order_id)
    IN UNION {
         {ExecuteOutcome(s, b, order_id, in[2], in[3], now_ns, avg_toxicity,
                         draws) :
            draws \in IF found THEN QuoteDraws(s, b, now_ns, avg_toxicity)
                      ELSE {NoDraws}} :
         avg_toxicity \in IF found THEN ToxicityDrawsOf(s, b, now_ns)
                          ELSE {0}} :
    in \in Ids \X SimVolumes \X Prices \X steps}

ExecuteOutcomes(s, b) == ExecuteOutcomesIn(s, b, TimeSteps)

\* The runs start after the first three messages of the symbol: the two
\* ADDs of the seed and an EXECUTE of part of the bid, which places the
\* first quotes with every sample it can draw.
SeedOutcomes(fill_mode) ==
  LET s == SeedSim(fill_mode)
      now_ns == s.clock_ns + LongStepNs
  IN UNION {
       {ExecuteOutcome(s, SeedBook, 1, VolStep, PriceStep, now_ns,
                       avg_toxicity, draws) :
          draws \in QuoteDraws(s, SeedBook, now_ns, avg_toxicity)} :
       avg_toxicity \in ToxicityDrawsOf(s, SeedBook, now_ns)}

InitSim ==
  /\ checkpoint = NoCheckpoint
  /\ nEvents = 0
  /\ replay = NotReplaying
  /\ \E fill_mode \in FillModes :
       \E o \in SeedOutcomes(fill_mode) :
         /\ sim = o.sim
         /\ book = o.book
         /\ lastOp = o.lastOp

SimAdd ==
  /\ nEvents < MaxSimEvents
  /\ \E order_id \in Ids, price \in Prices, volume \in SimVolumes,
        side \in Sides :
       /\ sim' = on_add(sim, order_id, price, volume, side)
       /\ book' = add_order(book, order_id, price, volume, side)
       /\ lastOp' = [op |-> "ADD", order_id |-> order_id, price |-> price,
                     volume |-> volume, side |-> side]
  /\ nEvents' = nEvents + 1
  /\ UNCHANGED <<checkpoint, replay>>

SimModify ==
  /\ nEvents < MaxSimEvents
  /\ \E order_id \in Ids, price \in Prices, volume \in SimVolumes :
       /\ sim' = on_modify(sim, order_id, price, volume)
       /\ book' = modify_order(book, order_id, price, volume)
       /\ lastOp' = [op |-> "MODIFY", order_id |-> order_id,
                     price |-> price, volume |-> volume]
  /\ nEvents' = nEvents + 1
  /\ UNCHANGED <<checkpoint, replay>>

SimDelete ==
  /\ nEvents < MaxSimEvents
  /\ \E order_id \in Ids :
       /\ sim' = on_delete(sim, order_id)
       /\ book' = delete_order(book, order_id)
       /\ lastOp' = [op |-> "DELETE", order_id |-> order_id]
  /\ nEvents' = nEvents + 1
  /\ UNCHANGED <<checkpoint, replay>>

SimReplace ==
  /\ nEvents < MaxSimEvents
  /\ \E old_order_id \in Ids, new_order_id \in Ids, price \in Prices,
        volume \in SimVolumes, side \in Sides :
       /\ sim' = on_replace(sim, old_order_id, new_order_id, price, volume,
                            side)
       /\ book' = add_order(delete_order(book, old_order_id), new_order_id,
                            price, volume, side)
       /\ lastOp' = [op |-> "REPLACE", order_id |-> old_order_id,
                     new_order_id |-> new_order_id, price |-> price,
                     volume |-> volume, side |-> side]
  /\ nEvents' = nEvents + 1
  /\ UNCHANGED <<checkpoint, replay>>

SimExecute ==
  /\ nEvents < MaxSimEvents
  /\ \E o \in ExecuteOutcomes(sim, book) :
       /\ sim' = o.sim
       /\ book' = o.book
       /\ lastOp' = o.lastOp
  /\ nEvents' = nEvents + 1
  /\ UNCHANGED <<checkpoint, replay>>

NextSim ==
  \/ SimAdd
  \/ SimModify
  \/ SimDelete
  \/ SimReplace
  \/ SimExecute

SpecSim == InitSim /\ [][NextSim]_vars

(***************************************************************************)
(* C1: after every event, on each side every level's aggregate volume is   *)
(* the sum of the volumes of the orders resting at that price on that      *)
(* side, hence the per-side sums of levels and of resting orders agree.    *)
(***************************************************************************)
C1_LevelsMatchOrders ==
  \A side \in Sides :
    \A p \in Prices :
      At(Ladder(book, side), p, 0) = OrderVolumeSum(book, OrdersAt(book, side, p))

(***************************************************************************)
(* C2: an ADD whose order id is already resting changes nothing in the     *)
(* book (ladders, running totals, order-id table, toxicity counters).      *)
(***************************************************************************)
C2_DuplicateAddIsNoOp ==
  [][(lastOp'.op = "ADD" /\ lastOp'.found) => book' = book]_vars

(***************************************************************************)
(* C3: after every event, every level present in a ladder has an aggregate *)
(* volume greater than zero.                                               *)
(***************************************************************************)
C3_NoEmptyLevel ==
  \A side \in Sides :
    \A p \in DOMAIN Ladder(book, side) : U32Gt(Ladder(book, side)[p], 0)

(***************************************************************************)
(* C4: after every event the running totals, and the quantities and level  *)
(* counts published in the stats, equal a full scan of the ladders.        *)
(***************************************************************************)
C4_TotalsMatchScan ==
  /\ book.total_bid_volume_ = MapSum(book.bids_)
  /\ book.total_ask_volume_ = MapSum(book.asks_)
  /\ book.stats_.total_bid_qty = MapSum(book.bids_)
  /\ book.stats_.total_ask_qty = MapSum(book.asks_)
  /\ book.stats_.bid_levels = Cardinality(DOMAIN book.bids_)
  /\ book.stats_.ask_levels = Cardinality(DOMAIN book.asks_)

\* a book that saw a partial execution has been restored from its checkpoint
C4_Witness ==
  /\ lastOp.op = "RESTORE"
  /\ book.total_bid_volume_ = VolStep
  /\ book.stats_.bid_levels = 1
  /\ book.last_traded_volume_ = VolStep

(***************************************************************************)
(* C5: an execute of qty on a resting order of remaining volume v takes    *)
(* qty off the order and its level when qty < v, removes the order and     *)
(* takes v off its level (erasing a level brought to zero) when qty >= v,  *)
(* and in both cases records the trade price and qty as the last trade.    *)
(***************************************************************************)
C5_ExecuteEffect ==
  [][(lastOp'.op = "EXECUTE" /\ lastOp'.found) =>
       LET id == lastOp'.u.order_id
           q == lastOp'.u.volume
           o == book.active_orders_[id]
           before == At(Ladder(book, o.side), o.price, 0)
           after == At(Ladder(book', o.side), o.price, 0)
       IN /\ q < o.volume =>
               /\ Resting(book', id)
               /\ book'.active_orders_[id].volume = o.volume - q
               /\ Has(Ladder(book', o.side), o.price)
               /\ after = before - q
          /\ q >= o.volume =>
               /\ ~Resting(book', id)
               /\ after = before - o.volume
               /\ (before - o.volume = 0) => ~Has(Ladder(book', o.side), o.price)
          /\ book'.last_traded_price_ = lastOp'.u.price
          /\ book'.last_traded_volume_ = q]_vars

\* a partial execution has acted: the order still rests with what is left
C5_Witness ==
  /\ lastOp.op = "EXECUTE"
  /\ lastOp.found
  /\ lastOp.u.volume > 0
  /\ Resting(book, lastOp.u.order_id)
  /\ book.active_orders_[lastOp.u.order_id].volume > 0
  /\ book.last_traded_volume_ = lastOp.u.volume

(***************************************************************************)
(* C6: a recorded sequence S that took the empty book to B, followed by    *)
(* clear(), leaves the empty book (no levels, no orders, zero totals and   *)
(* last trade, zero stats, no toxicity counters); replaying S after the    *)
(* clear yields B again.                                                   *)
(***************************************************************************)
C6_ClearThenReplay ==
  /\ (replay.phase = "replay" /\ replay.pos = 1) => book = EmptyBook
  /\ (replay.phase = "replay" /\ replay.pos = Len(replay.S) + 1) =>
        book = replay.B

\* S = <<add, partial execute>> has been replayed in full after the clear
C6_Witness ==
  /\ replay.phase = "replay"
  /\ Len(replay.S) = MaxReplayLen
  /\ replay.pos = Len(replay.S) + 1
  /\ DOMAIN book.active_orders_ # {}
  /\ book.last_traded_volume_ > 0
  /\ DOMAIN book.bid_toxicity_ # {}

(***************************************************************************)
(* C7: whenever both ladders have a level, best_bid < best_ask.            *)
(***************************************************************************)
C7_NeverCrossed ==
  (DOMAIN book.bids_ # {} /\ DOMAIN book.asks_ # {}) =>
     book.stats_.best_bid < book.stats_.best_ask

(***************************************************************************)
(* The cancel counters of every level, as get_toxicity_metrics reads them  *)
(* (zero for a level that never had an entry).                             *)
(***************************************************************************)
CancelCounters(b) ==
  [k \in Sides \X Prices |->
     LET m == get_toxicity_metrics(b, k[2], k[1])
     IN <<m.cancels, m.total_volume_cancelled>>]

NoCancels == [k \in Sides \X Prices |-> <<0, 0>>]

\* side of the ladder an order is filed under
LadderSide(order) == IF order.side = "B" THEN "B" ELSE "S"

DeleteCounts ==
  lastOp'.op \in {"DELETE", "REPLACE"} =>
    IF lastOp'.found
    THEN LET o == book.active_orders_[lastOp'.u.order_id]
             k == <<LadderSide(o), o.price>>
             c == CancelCounters(book)
         IN CancelCounters(book') =
              [c EXCEPT ![k] = <<c[k][1] + 1, c[k][2] + o.volume>>]
    ELSE CancelCounters(book') = CancelCounters(book)

(***************************************************************************)
(* C8 as stated: the cancel counters of a level change only through a      *)
(* delete (alone or as the first half of a replace), which adds 1 to       *)
(* cancels and the order's remaining volume to volume_cancelled; no other  *)
(* operation changes them.                                                 *)
(***************************************************************************)
C8_OnlyDeleteChangesCancels ==
  [][/\ lastOp'.op \notin {"DELETE", "REPLACE"} =>
          CancelCounters(book') = CancelCounters(book)
     /\ DeleteCounts]_vars

(***************************************************************************)
(* C8 amended: add, modify and execute never change the cancel counters;   *)
(* a delete adds 1 to cancels and the order's remaining volume to          *)
(* volume_cancelled of its level, which stay readable once the level is    *)
(* erased; clear() and restore_from_snapshot() reset every counter to 0.   *)
(***************************************************************************)
C8_CancelCountersFrame ==
  [][/\ lastOp'.op \notin {"DELETE", "REPLACE", "CLEAR", "RESTORE"} =>
          CancelCounters(book') = CancelCounters(book)
     /\ lastOp'.op \in {"CLEAR", "RESTORE"} => CancelCounters(book') = NoCancels
     /\ DeleteCounts]_vars

\* add 2*VolStep, execute VolStep, delete: the level is gone, its counters read
C8_Witness ==
  /\ lastOp.op = "DELETE"
  /\ lastOp.found
  /\ book.last_traded_volume_ = VolStep
  /\ \E p \in Prices :
       /\ ~Has(book.bids_, p)
       /\ get_toxicity_metrics(book, p, "B").cancels = 1
       /\ get_toxicity_metrics(book, p, "B").total_volume_cancelled = VolStep
       /\ get_toxicity_metrics(book, p, "B").total_volume_added = 2 * VolStep

(***************************************************************************)
(* Fill matching seen from outside on_execute.  lastOp.quoted is the       *)
(* simulator as update_quotes left it inside the handler, just before      *)
(* try_fill_one ran; sim is the simulator when the handler returned.       *)
(***************************************************************************)
\* the last step was an EXECUTE that reached try_fill_one for both strategies
ExecuteTried ==
  /\ lastOp.op = "EXECUTE"
  /\ lastOp.found
  /\ lastOp.quoted.eligible_to_trade

RestingVoSide == IF lastOp.resting_side = "B" THEN "bid" ELSE "ask"

\* the virtual order of strategy x the last EXECUTE was matched against
MatchedOrder(x) == lastOp.quoted.state[x][RestingVoSide]

PriceEligible(vo) ==
  eligible_for_fill(sim.fill_mode, vo.price, lastOp.exec_price,
                    lastOp.resting_side = "B")

\* shares the last EXECUTE filled for strategy x (0: no fill)
FillQty(x) ==
  IF Len(sim.pending_fills[x]) > Len(lastOp.quoted.pending_fills[x])
  THEN sim.pending_fills[x][Len(sim.pending_fills[x])].fill_qty
  ELSE 0

\* the last EXECUTE left strategy x without any trace of a fill
NotFilled(x) ==
  /\ sim.pending_fills[x] = lastOp.quoted.pending_fills[x]
  /\ sim.risk[x].total_fills = lastOp.quoted.risk[x].total_fills
  /\ sim.mm[x].inventory_ = lastOp.quoted.mm[x].inventory_

\* the last EXECUTE recorded exactly one fill of fill_qty shares for x
FilledFor(x, fill_qty) ==
  /\ FillQty(x) = fill_qty
  /\ Len(sim.pending_fills[x]) = Len(lastOp.quoted.pending_fills[x]) + 1
  /\ sim.risk[x].total_fills = lastOp.quoted.risk[x].total_fills + 1
  /\ sim.pending_fills[x][Len(sim.pending_fills[x])].fill_time_ns
       = lastOp.now_ns

\* the order could have been matched: strategy running, order live
Matchable(x) ==
  /\ ~lastOp.quoted.risk[x].halted
  /\ MatchedOrder(x).live

(***************************************************************************)
(* C9: latency gate.  An EXECUTE whose timestamp is earlier than a virtual *)
(* order's active_at_ns never fills it and leaves its remaining and        *)
(* queue_ahead unchanged; a price-eligible EXECUTE at or after             *)
(* active_at_ns, with no queue ahead, fills min(remaining, exec_qty).      *)
(***************************************************************************)
C9_LatencyGate ==
  lastOp.op = "EXECUTE" =>
    \A x \in Strategies :
      /\ \A v \in VoSides :
           lastOp.now_ns < lastOp.quoted.state[x][v].active_at_ns =>
             /\ sim.state[x][v].remaining
                  = lastOp.quoted.state[x][v].remaining
             /\ sim.state[x][v].queue_ahead
                  = lastOp.quoted.state[x][v].queue_ahead
             /\ (lastOp.found /\ v = RestingVoSide) => NotFilled(x)
      /\ ( /\ ExecuteTried
           /\ Matchable(x)
           /\ lastOp.now_ns >= MatchedOrder(x).active_at_ns
           /\ PriceEligible(MatchedOrder(x))
           /\ MatchedOrder(x).queue_ahead = 0 )
         => LET fill_qty == U32Min(MatchedOrder(x).remaining, lastOp.exec_qty)
            IN /\ sim.state[x][RestingVoSide].remaining
                    = MatchedOrder(x).remaining - fill_qty
               /\ IF fill_qty > 0 THEN FilledFor(x, fill_qty)
                  ELSE NotFilled(x)

\* one EXECUTE meets both cases: the toxicity strategy's bid, placed by this
\* EXECUTE, is not yet active and stays as it is, while the baseline bid,
\* placed earlier and with no queue ahead, is filled
C9_Witness ==
  /\ ExecuteTried
  /\ Matchable("toxicity")
  /\ MatchedOrder("toxicity").remaining > 0
  /\ PriceEligible(MatchedOrder("toxicity"))
  /\ lastOp.now_ns < MatchedOrder("toxicity").active_at_ns
  /\ sim.state["toxicity"][RestingVoSide] = MatchedOrder("toxicity")
  /\ NotFilled("toxicity")
  /\ Matchable("baseline")
  /\ lastOp.now_ns >= MatchedOrder("baseline").active_at_ns
  /\ PriceEligible(MatchedOrder("baseline"))
  /\ MatchedOrder("baseline").queue_ahead = 0
  /\ MatchedOrder("baseline").remaining > 0
  /\ FilledFor("baseline",
               U32Min(MatchedOrder("baseline").remaining, lastOp.exec_qty))

(***************************************************************************)
(* C10: queue discipline.  Outside the exposure window, a price-eligible   *)
(* EXECUTE of quantity q against an active live virtual order with         *)
(* queue_ahead a and remaining r consumes the queue first (queue_ahead     *)
(* becomes a - min(a, q)) and fills the order with what is left,           *)
(* fill_qty = min(r, q - min(a, q)); nothing is filled when q <= a; and    *)
(* remaining goes down by the fills to 0, never below.                     *)
(***************************************************************************)
C10_QueueDiscipline ==
  /\ \A x \in Strategies :
       \A v \in VoSides :
         /\ sim.state[x][v].remaining >= 0
         /\ sim.state[x][v].remaining <= sim.state[x][v].size
         /\ sim.state[x][v].queue_ahead >= 0
  /\ ExecuteTried =>
       \A x \in Strategies :
         ( /\ Matchable(x)
           /\ MatchedOrder(x).remaining > 0
           /\ lastOp.now_ns >= MatchedOrder(x).active_at_ns
           /\ lastOp.now_ns >= MatchedOrder(x).exposed_until_ns
           /\ PriceEligible(MatchedOrder(x)) )
         => LET a == MatchedOrder(x).queue_ahead
                r == MatchedOrder(x).remaining
                q == lastOp.exec_qty
                consumed == U32Min(a, q)
                fill_qty == U32Min(r, q - consumed)
            IN /\ sim.state[x][RestingVoSide].queue_ahead = a - consumed
               /\ sim.state[x][RestingVoSide].remaining = r - fill_qty
               /\ IF fill_qty > 0 THEN FilledFor(x, fill_qty)
                  ELSE NotFilled(x)
               /\ U32Le(q, a) => NotFilled(x)

\* one EXECUTE of q shares: the toxicity strategy's bid has a queue ahead,
\* smaller than q, and is filled with the left-over only; the baseline bid,
\* partly filled by an earlier EXECUTE, is drained to exactly 0
C10_Witness ==
  /\ ExecuteTried
  /\ Matchable("toxicity")
  /\ lastOp.now_ns >= MatchedOrder("toxicity").active_at_ns
  /\ lastOp.now_ns >= MatchedOrder("toxicity").exposed_until_ns
  /\ PriceEligible(MatchedOrder("toxicity"))
  /\ MatchedOrder("toxicity").queue_ahead > 0
  /\ MatchedOrder("toxicity").queue_ahead < lastOp.exec_qty
  /\ sim.state["toxicity"][RestingVoSide].queue_ahead = 0
  /\ FilledFor("toxicity",
               lastOp.exec_qty - MatchedOrder("toxicity").queue_ahead)
  /\ sim.state["toxicity"][RestingVoSide].remaining > 0
  /\ Matchable("baseline")
  /\ lastOp.now_ns >= MatchedOrder("baseline").active_at_ns
  /\ lastOp.now_ns >= MatchedOrder("baseline").exposed_until_ns
  /\ MatchedOrder("baseline").remaining > 0
  /\ MatchedOrder("baseline").remaining < MatchedOrder("baseline").size
  /\ FilledFor("baseline", MatchedOrder("baseline").remaining)
  /\ sim.state["baseline"][RestingVoSide].remaining = 0

(***************************************************************************)
(* The simulator after a cancel-replace of a live quote.  The book starts  *)
(* with a thin ask, so the toxicity strategy first quotes its ask a tick   *)
(* away; the ask is then refilled and the next quote update moves the      *)
(* strategy's ask back, which opens the exposure window of that order.     *)
(***************************************************************************)
ThinAskBook ==
  add_order(add_order(EmptyBook, 1, PriceStep, MaxSimVolume, "B"),
            2, 2 * PriceStep, VolStep, "S")

ThinAskSim(fill_mode) ==
  on_add(on_add(NewSim(fill_mode), 1, PriceStep, MaxSimVolume, "B"),
         2, 2 * PriceStep, VolStep, "S")

\* the samples of the first quote placement: least latency, front of queue
FirstDraws ==
  [x \in Strategies |->
     [v \in VoSides |-> [latency_ns |-> MinLatencyNs, queue_pos |-> 0]]]

\* ADD, ADD, EXECUTE (first quotes), MODIFY that refills the ask
RefilledAsk(fill_mode) ==
  LET s0 == ThinAskSim(fill_mode)
      o == ExecuteOutcome(s0, ThinAskBook, 1, VolStep, PriceStep,
                          s0.clock_ns + LongStepNs, 0, FirstDraws)
  IN [sim |-> on_modify(o.sim, 2, 2 * PriceStep, MaxSimVolume),
      book |-> modify_order(o.book, 2, 2 * PriceStep, MaxSimVolume)]

\* the EXECUTE whose quote update replaces the quotes, with every sample
ReplaceOutcomes(fill_mode) ==
  LET r == RefilledAsk(fill_mode)
      now_ns == r.sim.clock_ns + LongStepNs
  IN UNION {
       {ExecuteOutcome(r.sim, r.book, 1, VolStep, PriceStep, now_ns,
                       avg_toxicity, draws) :
          draws \in QuoteDraws(r.sim, r.book, now_ns, avg_toxicity)} :
       avg_toxicity \in ToxicityDrawsOf(r.sim, r.book, now_ns)}

InitExposure ==
  /\ checkpoint = NoCheckpoint
  /\ nEvents = 0
  /\ replay = NotReplaying
  /\ \E fill_mode \in FillModes :
       \E o \in ReplaceOutcomes(fill_mode) :
         /\ sim = o.sim
         /\ book = o.book
         /\ lastOp = o.lastOp

SpecExposure == InitExposure /\ [][NextSim]_vars

\* the order strategy x was matched against could be filled by the last
\* EXECUTE: strategy running, order live with shares left, latency elapsed,
\* execution price eligible
Fillable(x) ==
  /\ ExecuteTried
  /\ Matchable(x)
  /\ MatchedOrder(x).remaining > 0
  /\ lastOp.now_ns >= MatchedOrder(x).active_at_ns
  /\ PriceEligible(MatchedOrder(x))

InExposureWindow(x) == lastOp.now_ns < MatchedOrder(x).exposed_until_ns

(***************************************************************************)
(* C11: exposure-window bypass.  A price-eligible EXECUTE that arrives     *)
(* while now_ns < exposed_until_ns of a live virtual order does not        *)
(* consume queue_ahead and fills min(remaining, exec_qty); at or after     *)
(* exposed_until_ns the queue is consumed first and only the left-over     *)
(* quantity fills.                                                         *)
(***************************************************************************)
C11_ExposureBypass ==
  \A x \in Strategies :
    Fillable(x) =>
      LET a == MatchedOrder(x).queue_ahead
          r == MatchedOrder(x).remaining
          q == lastOp.exec_qty
          consumed == IF InExposureWindow(x) THEN 0 ELSE U32Min(a, q)
          fill_qty == U32Min(r, q - consumed)
      IN /\ sim.state[x][RestingVoSide].queue_ahead = a - consumed
         /\ sim.state[x][RestingVoSide].remaining = r - fill_qty
         /\ IF fill_qty > 0 THEN FilledFor(x, fill_qty) ELSE NotFilled(x)
         /\ InExposureWindow(x) => FilledFor(x, U32Min(r, q))

\* inside the window of the replaced ask, an execution no larger than the
\* queue ahead still fills, and the queue ahead is left as it was
C11_Witness ==
  /\ Fillable("toxicity")
  /\ InExposureWindow("toxicity")
  /\ MatchedOrder("toxicity").queue_ahead > 0
  /\ lastOp.exec_qty <= MatchedOrder("toxicity").queue_ahead
  /\ sim.state["toxicity"][RestingVoSide].queue_ahead
       = MatchedOrder("toxicity").queue_ahead
  /\ FilledFor("toxicity", lastOp.exec_qty)

(***************************************************************************)
(* The simulator late in a session: both strategies hold a pending buy     *)
(* fill, and a strategy's accumulated adverse-selection loss is either     *)
(* nil or already beyond max_daily_loss_per_symbol without the limit       *)
(* having been checked since (the loss was last charged by a quote update  *)
(* that found the symbol ineligible and returned before the check).  The   *)
(* next EXECUTE may come a whole lookforward later.                        *)
(***************************************************************************)
LookforwardStepNs == 250000
PriorAdverseFills == 100

LossStates == {0, -max_daily_loss_per_symbol - 1}

\* ADD, ADD, EXECUTE (first quotes), EXECUTE that fills both bids
FilledOutcomes(fill_mode) ==
  LET s0 == SeedSim(fill_mode)
      o == ExecuteOutcome(s0, SeedBook, 1, VolStep, PriceStep,
                          s0.clock_ns + LongStepNs, 0, FirstDraws)
      now_ns == o.sim.clock_ns + LongStepNs
  IN UNION {
       {ExecuteOutcome(o.sim, o.book, 1, VolStep, PriceStep, now_ns,
                       avg_toxicity, draws) :
          draws \in QuoteDraws(o.sim, o.book, now_ns, avg_toxicity)} :
       avg_toxicity \in ToxicityDrawsOf(o.sim, o.book, now_ns)}

WithLoss(risk, loss) ==
  IF loss = 0 THEN risk
  ELSE [risk EXCEPT !.total_adverse_pnl = loss,
                    !.adverse_fills = PriorAdverseFills,
                    !.total_fills = @ + PriorAdverseFills]

InitRisk ==
  /\ checkpoint = NoCheckpoint
  /\ nEvents = 0
  /\ replay = NotReplaying
  /\ \E fill_mode \in FillModes :
       \E o \in FilledOutcomes(fill_mode) :
         \E loss \in [Strategies -> LossStates] :
           /\ sim = [o.sim EXCEPT
                       !.risk = [x \in Strategies |->
                                   WithLoss(o.sim.risk[x], loss[x])]]
           /\ book = o.book
           /\ lastOp = [o.lastOp EXCEPT
                          !.quoted.risk =
                             [x \in Strategies |->
                                WithLoss(o.lastOp.quoted.risk[x], loss[x])]]

\* an EXECUTE that arrives a lookforward after the previous one
SimExecuteLate ==
  /\ nEvents < MaxSimEvents
  /\ \E o \in ExecuteOutcomesIn(sim, book, {LookforwardStepNs}) :
       /\ sim' = o.sim
       /\ book' = o.book
       /\ lastOp' = o.lastOp
  /\ nEvents' = nEvents + 1
  /\ UNCHANGED <<checkpoint, replay>>

NextRisk ==
  \/ NextSim
  \/ SimExecuteLate

SpecRisk == InitRisk /\ [][NextRisk]_vars

(***************************************************************************)
(* C12: halting is permanent and effective.  Once a strategy's risk state  *)
(* has halted = TRUE it stays TRUE in every later event, and no event that *)
(* starts or ends with the strategy halted records a fill for it: its      *)
(* total_fills, inventory and realized PnL stay as they were and its       *)
(* pending-fill buffer does not grow.                                      *)
(***************************************************************************)
C12_HaltingPermanent ==
  [][\A x \in Strategies :
       /\ sim.risk[x].halted => sim'.risk[x].halted
       /\ sim'.risk[x].halted =>
            /\ sim'.risk[x].total_fills = sim.risk[x].total_fills
            /\ sim'.mm[x].inventory_ = sim.mm[x].inventory_
            /\ sim'.mm[x].realized_pnl_ = sim.mm[x].realized_pnl_
            /\ Len(sim'.pending_fills[x]) <= Len(sim.pending_fills[x])]_vars

\* an EXECUTE finds the toxicity strategy halted by an earlier event, its
\* bid live, active and price-eligible, and leaves it unfilled, while the
\* same EXECUTE fills the baseline strategy's bid
C12_Witness ==
  /\ ExecuteTried
  /\ nEvents = 2
  /\ lastOp.quoted.risk["toxicity"].halted
  /\ sim.risk["toxicity"].halted
  /\ MatchedOrder("toxicity").live
  /\ MatchedOrder("toxicity").remaining > 0
  /\ MatchedOrder("toxicity").queue_ahead = 0
  /\ lastOp.now_ns >= MatchedOrder("toxicity").active_at_ns
  /\ PriceEligible(MatchedOrder("toxicity"))
  /\ NotFilled("toxicity")
  /\ sim.state["toxicity"] = lastOp.quoted.state["toxicity"]
  /\ ~sim.risk["baseline"].halted
  /\ FillQty("baseline") > 0

\* the step ran the measurement pass of update_quotes
MeasuredInStep == sim'.last_quote_update_ns # sim.last_quote_update_ns

\* positions of the pending fills of x whose lookforward has elapsed at the
\* timestamp of the step, and of those the step charges
ElapsedFills(x) ==
  {i \in 1..Len(sim.pending_fills[x]) :
     FillMeasured(sim.pending_fills[x][i], lastOp'.now_ns)}

ChargedFills(x) ==
  {i \in 1..Len(sim.pending_fills[x]) :
     FillCharged(sim.pending_fills[x][i], book.stats_.mid_price,
                 lastOp'.now_ns)}

IsPrefix(p, q) == Len(p) <= Len(q) /\ SubSeq(q, 1, Len(p)) = p

StillPending(fill) == ~FillMeasured(fill, lastOp'.now_ns)

MaxFills == 3
FillLot == 100
FillSizes == {FillLot, VolStep}

InitFill ==
  /\ book = EmptyBook
  /\ checkpoint = NoCheckpoint
  /\ nEvents = 0
  /\ replay = NotReplaying
  /\ \E m \in {NewStrategy, SimStrategy} :
       /\ sim = [phase |-> "strategy", mm |-> m]
       /\ lastOp = [op |-> "NEW", before |-> m]

Fill ==
  /\ nEvents < MaxFills
  /\ \E is_buy \in BOOLEAN, price \in Prices, size \in FillSizes :
       /\ sim' = [sim EXCEPT !.mm = on_order_filled(@, is_buy, price, size)]
       /\ lastOp' = [op |-> "FILL", is_buy |-> is_buy, price |-> price,
                     size |-> size, before |-> sim.mm]
  /\ nEvents' = nEvents + 1
  /\ UNCHANGED <<book, checkpoint, replay>>

NextFill == Fill

SpecFill == InitFill /\ [][NextFill]_vars

\* what the last fill added to realized_pnl_, the fee put back
GrossRealized ==
  sim.mm.realized_pnl_ - lastOp.before.realized_pnl_
    + lastOp.before.fee_per_share_ * lastOp.size

(***************************************************************************)
(* C14: fill accounting through zero.  A sell of q at p against a long     *)
(* inventory I, 0 < I < q, realizes (p - entry) * I, leaves inventory      *)
(* -(q - I) and sets the entry price to p; a buy of q against a short      *)
(* inventory of size S < q realizes (entry - p) * S, leaves inventory      *)
(* q - S and sets the entry price to p.  (realized_pnl_ also takes the     *)
(* fee of the fill, fee_per_share_ * q, which is 0 for a constructed       *)
(* strategy.)                                                              *)
(***************************************************************************)
C14_ThroughZero ==
  lastOp.op = "FILL" =>
    LET inv == lastOp.before.inventory_
        entry == lastOp.before.avg_entry_price_
        p == lastOp.price
        q == lastOp.size
    IN /\ (~lastOp.is_buy /\ 0 < inv /\ inv < q) =>
            /\ GrossRealized = (p - entry) * inv
            /\ sim.mm.inventory_ = -(q - inv)
            /\ sim.mm.avg_entry_price_ = p
       /\ (lastOp.is_buy /\ inv < 0 /\ -inv < q) =>
            /\ GrossRealized = (entry - p) * (-inv)
            /\ sim.mm.inventory_ = q - (-inv)
            /\ sim.mm.avg_entry_price_ = p
       /\ lastOp.before.fee_per_share_ = 0 =>
            GrossRealized
              = sim.mm.realized_pnl_ - lastOp.before.realized_pnl_

\* long FillLot bought a tick lower, then a sell of VolStep: the whole long
\* is closed at a profit and the rest of the fill opens a short
C14_Witness ==
  /\ lastOp.op = "FILL"
  /\ ~lastOp.is_buy
  /\ lastOp.before.fee_per_share_ = 0
  /\ lastOp.before.inventory_ = FillLot
  /\ lastOp.size = VolStep
  /\ lastOp.before.avg_entry_price_ < lastOp.price
  /\ sim.mm.realized_pnl_
       = (lastOp.price - lastOp.before.avg_entry_price_) * FillLot
  /\ sim.mm.inventory_ = -(VolStep - FillLot)
  /\ sim.mm.avg_entry_price_ = lastOp.price

(***************************************************************************)
(* OnlineToxicityModel (src/src/market_maker.hpp, market_maker.cpp).       *)
(* Features, means, weights and the bias are fixed-point numbers in        *)
(* thousandths, feat_m2 is in millionths and the learning rate in          *)
(* millionths; divisions round down.  predict(fv) after the warmup is a    *)
(* sigmoid, a floating-point value strictly between 0 and 1: the value it  *)
(* returns is an input of the update.                                      *)
(***************************************************************************)
N_TOXICITY_FEATURES == 8
base_learning_rate == 10000   \* 0.01
WeightLimit == 5000           \* weights and bias are clipped to [-5, 5]

MaxWarmup == 2
MaxUpdates == 3
FeatureUnit == 500
LowPrediction == 250
HighPrediction == 750
MaxStdDev == 1000

FeatureIdx == 1..N_TOXICITY_FEATURES
InitialWeights == <<400, 200, 150, 150, 100, 0, 0, 0>>

FeatureVectors ==
  {[i \in FeatureIdx |-> 0],
   [i \in FeatureIdx |-> FeatureUnit],
   [i \in FeatureIdx |-> IF i = 1 THEN 2 * FeatureUnit ELSE 0]}

PredictDraws == {LowPrediction, HighPrediction}

\* OnlineToxicityModel(lr, warmup)
NewModel(lr, warmup) ==
  [weights |-> InitialWeights, bias |-> 0, base_learning_rate |-> lr,
   n_updates |-> 0, warmup_fills |-> warmup,
   feat_mean |-> [i \in FeatureIdx |-> 0],
   feat_m2 |-> [i \in FeatureIdx |-> 0],
   feat_count |-> 0]

NewMean(md, fv, i) ==
  md.feat_mean[i] + (fv[i] - md.feat_mean[i]) \div (md.feat_count + 1)

update_normalization(md, fv) ==
  [md EXCEPT
     !.feat_count = @ + 1,
     !.feat_mean = [i \in FeatureIdx |-> NewMean(md, fv, i)],
     !.feat_m2 = [i \in FeatureIdx |->
                    md.feat_m2[i]
                      + (fv[i] - md.feat_mean[i]) * (fv[i] - NewMean(md, fv, i))]]

\* std::sqrt, rounded down
ISqrt(n) == CHOOSE k \in 0..MaxStdDev : k * k <= n /\ (k + 1) * (k + 1) > n

StdDev(md, i) ==
  IF md.feat_count > 1 THEN ISqrt(md.feat_m2[i] \div (md.feat_count - 1))
  ELSE 1000

XNorm(md, fv, i) ==
  IF StdDev(md, i) > 0
  THEN ((fv[i] - md.feat_mean[i]) * 1000) \div StdDev(md, i)
  ELSE 0

Clip(w) ==
  IF w < -WeightLimit THEN -WeightLimit
  ELSE IF w > WeightLimit THEN WeightLimit ELSE w

current_lr(md) == (md.base_learning_rate * 1000) \div (1000 + md.n_updates)

\* the gradient step of update, for error = predicted - label
TrainStep(md, fv, error, lr) ==
  [md EXCEPT
     !.weights = [i \in FeatureIdx |->
                    Clip(md.weights[i]
                           - (((lr * error) \div 1000) * XNorm(md, fv, i))
                               \div 1000000)],
     !.bias = Clip(@ - (lr * error) \div 1000000),
     !.n_updates = @ + 1]

\* a model that takes the gradient step during the warmup as well
WarmupStep_trains(md, fv, was_adverse, predicted) ==
  TrainStep(md, fv, predicted - (IF was_adverse THEN 1000 ELSE 0),
            current_lr(md))

\* update after update_normalization: warmup or gradient step
WarmupStep(md, fv, was_adverse, predicted) ==
  IF md.n_updates < md.warmup_fills
  THEN [md EXCEPT !.n_updates = @ + 1]
  ELSE TrainStep(md, fv, predicted - (IF was_adverse THEN 1000 ELSE 0),
                 current_lr(md))

update(md, fv, was_adverse, predicted) ==
  WarmupStep(update_normalization(md, fv), fv, was_adverse, predicted)

InitLearn ==
  /\ book = EmptyBook
  /\ checkpoint = NoCheckpoint
  /\ nEvents = 0
  /\ replay = NotReplaying
  /\ \E warmup \in 0..MaxWarmup :
       /\ sim = [phase |-> "model",
                 model |-> NewModel(base_learning_rate, warmup)]
       /\ lastOp = [op |-> "NEW",
                    before |-> NewModel(base_learning_rate, warmup)]

\* one measured fill trains the model
Update ==
  /\ nEvents < MaxUpdates
  /\ \E fv \in FeatureVectors, was_adverse \in BOOLEAN,
        predicted \in PredictDraws :
       /\ sim' = [sim EXCEPT
                    !.model = update(@, fv, was_adverse, predicted)]
       /\ lastOp' = [op |-> "UPDATE", fv |-> fv,
                     was_adverse |-> was_adverse, before |-> sim.model]
  /\ nEvents' = nEvents + 1
  /\ UNCHANGED <<book, checkpoint, replay>>

NextLearn == Update

SpecLearn == InitLearn /\ [][NextLearn]_vars

(***************************************************************************)
(* C15: online-model warmup.  With warmup_fills = W, the first W updates   *)
(* leave weights and bias at their initial values while they update        *)
(* feat_mean, feat_m2 and feat_count; only an update after the W-th can    *)
(* change weights or bias; n_updates grows by exactly 1 on every update.   *)
(***************************************************************************)
C15_Warmup ==
  /\ sim.model.n_updates = nEvents
  /\ sim.model.feat_count = nEvents
  /\ sim.model.n_updates <= sim.model.warmup_fills =>
       /\ sim.model.weights = InitialWeights
       /\ sim.model.bias = 0
  /\ lastOp.op = "UPDATE" =>
       /\ sim.model.n_updates = lastOp.before.n_updates + 1
       /\ sim.model.feat_count = lastOp.before.feat_count + 1
       /\ sim.model.feat_mean
            = update_normalization(lastOp.before, lastOp.fv).feat_mean
       /\ sim.model.feat_m2
            = update_normalization(lastOp.before, lastOp.fv).feat_m2
       /\ lastOp.before.n_updates < lastOp.before.warmup_fills =>
            /\ sim.model.weights = lastOp.before.weights
            /\ sim.model.bias = lastOp.before.bias

\* W = 2: two updates have moved the feature statistics and left weights
\* and bias alone, and the third has changed both
C15_Witness ==
  /\ lastOp.op = "UPDATE"
  /\ sim.model.warmup_fills = MaxWarmup
  /\ sim.model.n_updates = MaxWarmup + 1
  /\ lastOp.before.weights = InitialWeights
  /\ lastOp.before.bias = 0
  /\ lastOp.before.feat_count = MaxWarmup
  /\ lastOp.before.feat_mean # [i \in FeatureIdx |-> 0]
  /\ sim.model.weights # InitialWeights
  /\ sim.model.bias # 0

(***************************************************************************)
(* Two sequential runs over the same messages of one symbol.  Each run has *)
(* its own configuration seed and its own construction time (the           *)
(* strategies store steady_clock::now() in stats_.start_time).  The        *)
(* generator std::mt19937_64 is represented by a fixed stream of samples   *)
(* indexed by the seed it was given and the number of samples drawn so     *)
(* far; the seed is kept to its low 8 bits.  The toxicity score read by a  *)
(* quote update is a function of the book's counters: two runs whose       *)
(* books are equal read the same score.                                    *)
(***************************************************************************)
DefaultSeed == 42
GoldenLowByte == 21      \* 0x15, the low byte of 0x9E3779B97F4A7C15
SeedModulus == 256
MaxTwinEvents == 2
TwinSymbol == 1

Seeds == {DefaultSeed, DefaultSeed + 1}
Runs == {1, 2}

RECURSIVE BitXor(_, _, _)
BitXor(a, b, n) ==
  IF n = 0 THEN 0
  ELSE (((a % 2) + (b % 2)) % 2) + 2 * BitXor(a \div 2, b \div 2, n - 1)

\* a generator seeded from the wall clock as well
SeedRng_with_clock(config_seed, idx, start_time) ==
  [seed |-> BitXor((config_seed + start_time) % SeedModulus,
                   (idx * GoldenLowByte) % SeedModulus, 8),
   calls |-> 0]

\* rng.seed(config.exec.seed ^ (idx * 0x9E3779B97F4A7C15))
SeedRng(config_seed, idx, start_time) ==
  [seed |-> BitXor(config_seed % SeedModulus,
                   (idx * GoldenLowByte) % SeedModulus, 8),
   calls |-> 0]

\* the k-th sample of the stream, as a latency and as a queue position
LatencySample(rng, k) ==
  IF (rng.seed + rng.calls + k) % 2 = 0 THEN MinLatencyNs ELSE LongLatencyNs

QueueSample(rng, k) ==
  IF ((rng.seed + rng.calls + k) \div 2) % 2 = 0 THEN 0 ELSE QueueAheadDraw

\* the order in which update_quotes visits the virtual orders
VoOrder ==
  <<<<"baseline", "bid">>, <<"baseline", "ask">>,
    <<"toxicity", "bid">>, <<"toxicity", "ask">>>>

VoIndex(x, v) == CHOOSE k \in 1..4 : VoOrder[k] = <<x, v>>

\* samples the k-th update_virtual_order call draws: none when the order is
\* unchanged, else the latency and, with visible depth, the queue position
SamplesOf(r, b, k) ==
  IF ~r.placing THEN 0
  ELSE IF ~VoChanged(r.sim.state[VoOrder[k][1]][VoOrder[k][2]],
                     QuotePrice(r.sim.mm[VoOrder[k][1]].current_quotes_,
                                VoOrder[k][2]),
                     QuoteSize(r.sim.mm[VoOrder[k][1]].current_quotes_,
                               VoOrder[k][2]))
  THEN 0
  ELSE IF VisibleDepth(b,
                       QuotePrice(r.sim.mm[VoOrder[k][1]].current_quotes_,
                                  VoOrder[k][2]),
                       BookSide(VoOrder[k][2])) = 0
  THEN 1
  ELSE 2

RECURSIVE SamplesBefore(_, _, _)
SamplesBefore(r, b, k) ==
  IF k <= 1 THEN 0
  ELSE SamplesOf(r, b, k - 1) + SamplesBefore(r, b, k - 1)

StreamDraws(rng, r, b) ==
  [x \in Strategies |->
     [v \in VoSides |->
        IF SamplesOf(r, b, VoIndex(x, v)) = 0 THEN NoDraw
        ELSE [latency_ns |->
                LatencySample(rng, SamplesBefore(r, b, VoIndex(x, v))),
              queue_pos |->
                QueueSample(rng, SamplesBefore(r, b, VoIndex(x, v)) + 1)]]]

NewRun(fill_mode, config_seed, start_time) ==
  [sim |-> SeedSim(fill_mode),
   book |-> SeedBook,
   rng |-> SeedRng(config_seed, TwinSymbol, start_time),
   start_time |-> start_time]

\* one run handles an EXECUTE, drawing from its own generator
RunExecuteWith(run, o, used) ==
  [run EXCEPT !.sim = o.sim, !.book = o.book, !.rng.calls = @ + used]

RunExecuteAfter(run, r, order_id, exec_qty, exec_price, now_ns, avg_toxicity) ==
  RunExecuteWith(run,
                 ExecuteOutcome(run.sim, run.book, order_id, exec_qty,
                                exec_price, now_ns, avg_toxicity,
                                StreamDraws(run.rng, r, run.book)),
                 SamplesBefore(r, run.book, 5))

RunExecute(run, order_id, exec_qty, exec_price, now_ns, avg_toxicity) ==
  IF Has(run.sim.order_info, order_id)
  THEN RunExecuteAfter(run,
                       refresh_quotes(run.sim, run.book, now_ns, avg_toxicity),
                       order_id, exec_qty, exec_price, now_ns, avg_toxicity)
  ELSE [run EXCEPT
          !.sim.clock_ns = now_ns,
          !.book = execute_order(run.book, order_id, exec_qty, exec_price)]

InitTwin ==
  /\ book = EmptyBook
  /\ checkpoint = NoCheckpoint
  /\ nEvents = 0
  /\ replay = NotReplaying
  /\ lastOp = [op |-> "NEW"]
  /\ \E fill_mode \in FillModes :
       \E config_seed \in [Runs -> Seeds] :
         sim = [phase |-> "twin",
                config_seed |-> config_seed,
                run |-> [i \in Runs |->
                           NewRun(fill_mode, config_seed[i], i)]]

TwinAdd ==
  /\ nEvents < MaxTwinEvents
  /\ \E order_id \in Ids, price \in Prices, volume \in SimVolumes,
        side \in Sides :
       /\ sim' = [sim EXCEPT !.run =
                    [i \in Runs |->
                       [sim.run[i] EXCEPT
                          !.sim = on_add(@, order_id, price, volume, side),
                          !.book = add_order(@, order_id, price, volume,
                                             side)]]]
       /\ lastOp' = [op |-> "ADD", order_id |-> order_id]
  /\ nEvents' = nEvents + 1
  /\ UNCHANGED <<book, checkpoint, replay>>

TwinModify ==
  /\ nEvents < MaxTwinEvents
  /\ \E order_id \in Ids, price \in Prices, volume \in SimVolumes :
       /\ sim' = [sim EXCEPT !.run =
                    [i \in Runs |->
                       [sim.run[i] EXCEPT
                          !.sim = on_modify(@, order_id, price, volume),
                          !.book = modify_order(@, order_id, price,
                                                volume)]]]
       /\ lastOp' = [op |-> "MODIFY", order_id |-> order_id]
  /\ nEvents' = nEvents + 1
  /\ UNCHANGED <<book, checkpoint, replay>>

TwinDelete ==
  /\ nEvents < MaxTwinEvents
  /\ \E order_id \in Ids :
       /\ sim' = [sim EXCEPT !.run =
                    [i \in Runs |->
                       [sim.run[i] EXCEPT
                          !.sim = on_delete(@, order_id),
                          !.book = delete_order(@, order_id)]]]
       /\ lastOp' = [op |-> "DELETE", order_id |-> order_id]
  /\ nEvents' = nEvents + 1
  /\ UNCHANGED <<book, checkpoint, replay>>

TwinReplace ==
  /\ nEvents < MaxTwinEvents
  /\ \E old_order_id \in Ids, new_order_id \in Ids, price \in Prices,
        volume \in SimVolumes, side \in Sides :
       /\ sim' = [sim EXCEPT !.run =
                    [i \in Runs |->
                       [sim.run[i] EXCEPT
                          !.sim = on_replace(@, old_order_id, new_order_id,
                                             price, volume, side),
                          !.book = add_order(delete_order(@, old_order_id),
                                             new_order_id, price, volume,
                                             side)]]]
       /\ lastOp' = [op |-> "REPLACE", order_id |-> old_order_id]
  /\ nEvents' = nEvents + 1
  /\ UNCHANGED <<book, checkpoint, replay>>

TwinExecute ==
  /\ nEvents < MaxTwinEvents
  /\ \E order_id \in Ids, exec_qty \in SimVolumes, exec_price \in Prices,
        step \in TimeSteps, avg_toxicity \in [Runs -> ToxicityDraws] :
       /\ sim.run[1].book = sim.run[2].book
            => avg_toxicity[1] = avg_toxicity[2]
       /\ sim' = [sim EXCEPT !.run =
                    [i \in Runs |->
                       RunExecute(sim.run[i], order_id, exec_qty, exec_price,
                                  sim.run[i].sim.clock_ns + step,
                                  avg_toxicity[i])]]
       /\ lastOp' = [op |-> "EXECUTE", order_id |-> order_id]
  /\ nEvents' = nEvents + 1
  /\ UNCHANGED <<book, checkpoint, replay>>

NextTwin ==
  \/ TwinAdd
  \/ TwinModify
  \/ TwinDelete
  \/ TwinReplace
  \/ TwinExecute

SpecTwin == InitTwin /\ [][NextTwin]_vars

PACKET_HEADER_SIZE == 16
MESSAGE_HEADER_SIZE == 4
MaxMsgs == 3
MaxBodyLen == 12
MaxPackets == 2
BigMsgSize == 9

MsgSizes == {0, MESSAGE_HEADER_SIZE - 1, MESSAGE_HEADER_SIZE,
             MESSAGE_HEADER_SIZE + 1, BigMsgSize}

Payloads ==
  [length : 0..(PACKET_HEADER_SIZE + MaxBodyLen),
   num_messages : 0..MaxMsgs,
   sizes : [1..MaxMsgs -> MsgSizes]]

RECURSIVE FrameStart(_, _)
FrameStart(payload, k) ==
  IF k <= 1 THEN PACKET_HEADER_SIZE
  ELSE FrameStart(payload, k - 1) + payload.sizes[k - 1]

\* read_le16(data + offset): the msg_size field that sits at offset
read_le16(payload, offset) ==
  IF \E k \in 1..MaxMsgs : FrameStart(payload, k) = offset
  THEN payload.sizes[CHOOSE k \in 1..MaxMsgs :
                       /\ FrameStart(payload, k) = offset
                       /\ \A j \in 1..(k - 1) :
                            FrameStart(payload, j) # offset]
  ELSE 0

NoPayload == [length |-> 0, num_messages |-> 0, sizes |-> [k \in 1..MaxMsgs |-> 0]]

IdleLoop ==
  [phase |-> "framing", pc |-> "idle", payload |-> NoPayload, offset |-> 0,
   i |-> 0, dispatched |-> <<>>, read_end |-> 0]

Max2(a, b) == IF a >= b THEN a ELSE b

\* a size test that accepts any size that fits
SizeFits_no_minimum(msg_size, offset, length) ==
  offset + msg_size <= length

\* !(msg_size < MESSAGE_HEADER_SIZE || offset + msg_size > length)
SizeFits(msg_size, offset, length) ==
  /\ msg_size >= MESSAGE_HEADER_SIZE
  /\ offset + msg_size <= length

\* the callback up to the loop: length and header checks
EnterLoop(payload) ==
  IF payload.length < PACKET_HEADER_SIZE
  THEN [IdleLoop EXCEPT !.pc = "done", !.payload = payload]
  ELSE [IdleLoop EXCEPT !.pc = "loop", !.payload = payload,
                        !.offset = PACKET_HEADER_SIZE,
                        !.read_end = PACKET_HEADER_SIZE]

\* one evaluation of the loop condition and, if it holds, of the body
LoopIteration(st) ==
  IF ~(st.i < st.payload.num_messages /\ st.offset < st.payload.length)
  THEN [st EXCEPT !.pc = "done"]
  ELSE IF st.offset + MESSAGE_HEADER_SIZE > st.payload.length
  THEN [st EXCEPT !.pc = "done"]
  ELSE IF ~SizeFits(read_le16(st.payload, st.offset), st.offset,
                    st.payload.length)
  THEN [st EXCEPT !.pc = "done", !.read_end = Max2(@, st.offset + 2)]
  ELSE [st EXCEPT
          !.read_end = Max2(@, st.offset + MESSAGE_HEADER_SIZE),
          !.dispatched =
             Append(@, [offset |-> st.offset,
                        msg_size |-> read_le16(st.payload, st.offset)]),
          !.offset = @ + read_le16(st.payload, st.offset),
          !.i = @ + 1]

InitFraming ==
  /\ book = EmptyBook
  /\ checkpoint = NoCheckpoint
  /\ nEvents = 0
  /\ replay = NotReplaying
  /\ lastOp = [op |-> "NEW"]
  /\ sim = IdleLoop

\* the reader hands the next UDP payload to the callback
PacketArrives ==
  /\ sim.pc = "idle"
  /\ nEvents < MaxPackets
  /\ \E payload \in Payloads : sim' = EnterLoop(payload)
  /\ nEvents' = nEvents + 1
  /\ lastOp' = [op |-> "PACKET", before |-> sim.pc]
  /\ UNCHANGED <<book, checkpoint, replay>>

Iterate ==
  /\ sim.pc = "loop"
  /\ sim' = LoopIteration(sim)
  /\ lastOp' = [op |-> "ITERATE", before |-> sim.pc]
  /\ UNCHANGED <<book, checkpoint, nEvents, replay>>

\* the callback returns to the reader; its locals are gone
Return ==
  /\ sim.pc = "done"
  /\ sim' = IdleLoop
  /\ lastOp' = [op |-> "RETURN", before |-> sim.pc]
  /\ UNCHANGED <<book, checkpoint, nEvents, replay>>

NextFraming ==
  \/ PacketArrives
  \/ Iterate
  \/ Return

SpecFraming ==
  InitFraming /\ [][NextFraming]_vars /\ WF_vars(Iterate) /\ WF_vars(Return)

\* the messages of a payload the claim says are dispatched: from the k-th
\* on, as long as the header fits, the size is at least 4 and the message
\* does not overrun the payload
RECURSIVE ValidFrames(_, _, _)
ValidFrames(payload, k, offset) ==
  IF \/ k > payload.num_messages
     \/ offset + MESSAGE_HEADER_SIZE > payload.length
     \/ payload.sizes[k] < MESSAGE_HEADER_SIZE
     \/ offset + payload.sizes[k] > payload.length
  THEN <<>>
  ELSE <<[offset |-> offset, msg_size |-> payload.sizes[k]]>>
         \o ValidFrames(payload, k + 1, offset + payload.sizes[k])

FramingSafe ==
  /\ sim.read_end <= sim.payload.length
  /\ IsPrefix(sim.dispatched,
              ValidFrames(sim.payload, 1, PACKET_HEADER_SIZE))
  /\ Len(sim.dispatched) <= sim.payload.num_messages
  /\ \A k \in 1..Len(sim.dispatched) :
       sim.dispatched[k].offset + sim.dispatched[k].msg_size
         <= sim.payload.length
  /\ sim.pc = "done" =>
       sim.dispatched = ValidFrames(sim.payload, 1, PACKET_HEADER_SIZE)

(***************************************************************************)
(* C17: fail-soft framing.  For any payload the loop dispatches exactly    *)
(* the longest prefix of messages (at most num_messages) whose header fits *)
(* and whose msg_size is at least 4 and within the payload; it stops at    *)
(* the first message that is not, never reads past the payload, always     *)
(* terminates, and the run goes on with the next packet.                   *)
(***************************************************************************)
C17_FailSoftFraming ==
  /\ []FramingSafe
  /\ (sim.pc = "loop") ~> (sim.pc = "idle")

\* a second packet was cut short at a malformed message after dispatching
\* one
C17_Witness ==
  /\ nEvents = MaxPackets
  /\ sim.pc = "done"
  /\ Len(sim.dispatched) = 1
  /\ sim.payload.num_messages = MaxMsgs
  /\ sim.payload.sizes[2] < MESSAGE_HEADER_SIZE
  /\ sim.offset + MESSAGE_HEADER_SIZE <= sim.payload.length

(***************************************************************************)
(* The dispatcher (process_xdp_message) in front of the simulator table.   *)
(* The symbol map is a function from the indices it holds to their ticker  *)
(* strings (a row of the CSV may have an empty symbol field); the table    *)
(* g_sims_array has MAX_SYMBOLS slots, of which the model keeps those of   *)
(* the indices it sends.  A slot records whether its simulator exists and  *)
(* how many messages its handlers have received.                           *)
(***************************************************************************)
MAX_VALID_SYMBOL_INDEX == 100000
MAX_SYMBOLS == 100000
MaxRouted == 3

SymbolIndexes == {0, 1, 2, MAX_SYMBOLS - 1, MAX_SYMBOLS, MAX_SYMBOLS + 1}
MapCandidates == {1, MAX_SYMBOLS - 1, MAX_SYMBOLS}
Tickers == {"AAPL", ""}
Slots == {idx \in SymbolIndexes : idx < MAX_SYMBOLS}

EmptySlot == [created |-> FALSE, handled |-> 0]

\* SymbolMap::get_symbol: the ticker, or the index in decimal
get_symbol(symbols, index) ==
  IF index \in DOMAIN symbols THEN symbols[index] ELSE ToString(index)

\* get_or_create_sim_fast in one thread: FALSE stands for nullptr
get_or_create_sim(table, symbol_index) ==
  IF symbol_index >= MAX_SYMBOLS
  THEN [found |-> FALSE, table |-> table]
  ELSE [found |-> TRUE,
        table |-> [table EXCEPT ![symbol_index].created = TRUE]]

Delivered(r, symbol_index) ==
  IF ~r.found THEN r.table
  ELSE [r.table EXCEPT ![symbol_index].handled = @ + 1]

process_xdp_message(st, symbol_index) ==
  IF symbol_index = 0 THEN st
  ELSE IF symbol_index > MAX_VALID_SYMBOL_INDEX THEN st
  ELSE IF st.filter_ticker # ""
          /\ get_symbol(st.symbols, symbol_index) # st.filter_ticker
  THEN st
  ELSE IF get_symbol(st.symbols, symbol_index) = "" THEN st
  ELSE [st EXCEPT
          !.total_messages = @ + 1,
          !.table = Delivered(get_or_create_sim(@, symbol_index),
                              symbol_index)]

InitRouting ==
  /\ book = EmptyBook
  /\ checkpoint = NoCheckpoint
  /\ nEvents = 0
  /\ replay = NotReplaying
  /\ lastOp = [op |-> "NEW"]
  /\ \E mapped \in SUBSET MapCandidates :
       \E symbols \in [mapped -> Tickers] :
         \E filter_ticker \in Tickers :
           sim = [phase |-> "routing",
                  symbols |-> symbols,
                  filter_ticker |-> filter_ticker,
                  table |-> [idx \in Slots |-> EmptySlot],
                  total_messages |-> 0]

Dispatch ==
  /\ nEvents < MaxRouted
  /\ \E symbol_index \in SymbolIndexes :
       /\ sim' = process_xdp_message(sim, symbol_index)
       /\ lastOp' = [op |-> "MSG", symbol_index |-> symbol_index]
  /\ nEvents' = nEvents + 1
  /\ UNCHANGED <<book, checkpoint, replay>>

NextRouting == Dispatch

SpecRouting == InitRouting /\ [][NextRouting]_vars

InRange(symbol_index) == symbol_index \in 1..MAX_VALID_SYMBOL_INDEX

MappedToTicker(symbol_index) ==
  /\ symbol_index \in DOMAIN sim.symbols
  /\ sim.symbols[symbol_index] # ""

PassesFilter(symbol_index) ==
  sim.filter_ticker = "" \/ sim.symbols[symbol_index] = sim.filter_ticker

(***************************************************************************)
(* C18: message routing.  A message whose symbol_index is outside          *)
(* [1, 100000] or has no ticker in the symbol map changes no simulator     *)
(* and creates none; a message with an in-range, mapped symbol_index (and  *)
(* passing the ticker filter, when one is set) reaches the simulator of    *)
(* its symbol.                                                             *)
(***************************************************************************)
C18_Routing ==
  [][/\ (~InRange(lastOp'.symbol_index)
           \/ ~MappedToTicker(lastOp'.symbol_index))
          => sim'.table = sim.table
     /\ (InRange(lastOp'.symbol_index)
           /\ MappedToTicker(lastOp'.symbol_index)
           /\ PassesFilter(lastOp'.symbol_index))
          => /\ lastOp'.symbol_index \in DOMAIN sim.table
             /\ sim'.table[lastOp'.symbol_index].created
             /\ sim'.table[lastOp'.symbol_index].handled
                  = sim.table[lastOp'.symbol_index].handled + 1]_vars

(***************************************************************************)
(* Threads of the parallel mode inside get_or_create_sim_fast.  Each       *)
(* atomic load, store and lock operation is one step.  A pointer is the    *)
(* serial number of the allocation that produced it; 0 is nullptr.  The    *)
(* flag is stored with release order after the pointer is written and      *)
(* loaded with acquire order before the pointer is read, so the steps of   *)
(* different threads interleave sequentially consistently.                 *)
(***************************************************************************)
NUM_LOCK_SHARDS == 64
NumThreads == 2
MaxCalls == 3
nullptr == 0

Threads == 1..NumThreads
\* two indices of one shard, and the first index past the table
CalledIndexes == {1, 1 + NUM_LOCK_SHARDS, MAX_SYMBOLS}
TableIndexes == {idx \in CalledIndexes : idx < MAX_SYMBOLS}

get_shard_mutex(symbol_index) == symbol_index % NUM_LOCK_SHARDS

Shards == {get_shard_mutex(idx) : idx \in TableIndexes}

IdleThread ==
  [pc |-> "idle", symbol_index |-> 0, saw_flag |-> FALSE, result |-> nullptr]

\* a slow path that constructs without looking at the flag again
AfterLock_no_recheck(flag) == "construct"

\* the second load of the flag, under the shard lock
AfterLock(flag) == IF flag THEN "slow_return" ELSE "construct"

InitThreads ==
  /\ book = EmptyBook
  /\ checkpoint = NoCheckpoint
  /\ nEvents = 0
  /\ replay = NotReplaying
  /\ lastOp = [op |-> "NEW"]
  /\ sim = [phase |-> "threads",
            g_sims_initialized |-> [idx \in TableIndexes |-> FALSE],
            g_sims_array |-> [idx \in TableIndexes |-> nullptr],
            g_shard_mutexes |-> [s \in Shards |-> 0],
            constructed |-> [idx \in TableIndexes |-> 0],
            allocations |-> 0,
            returned |-> {},
            thread |-> [th \in Threads |-> IdleThread]]

Finish(th, ptr) ==
  [sim EXCEPT
     !.thread[th] = [@ EXCEPT !.pc = "idle", !.result = ptr],
     !.returned = @ \cup {<<sim.thread[th].symbol_index, ptr>>}]

\* entry, with the bounds test on symbol_index
Call(th) ==
  /\ sim.thread[th].pc = "idle"
  /\ nEvents < MaxCalls
  /\ \E symbol_index \in CalledIndexes :
       sim' = [sim EXCEPT !.thread[th] =
                 IF symbol_index >= MAX_SYMBOLS
                 THEN [IdleThread EXCEPT !.symbol_index = symbol_index]
                 ELSE [IdleThread EXCEPT !.pc = "fast_check",
                                         !.symbol_index = symbol_index]]
  /\ nEvents' = nEvents + 1
  /\ lastOp' = [op |-> "CALL", thread |-> th]
  /\ UNCHANGED <<book, checkpoint, replay>>

\* g_sims_initialized[symbol_index].load(acquire) on the fast path
FastCheck(th) ==
  /\ sim.thread[th].pc = "fast_check"
  /\ sim' = [sim EXCEPT
               !.thread[th].saw_flag =
                  sim.g_sims_initialized[sim.thread[th].symbol_index],
               !.thread[th].pc =
                  IF sim.g_sims_initialized[sim.thread[th].symbol_index]
                  THEN "fast_return" ELSE "lock"]
  /\ lastOp' = [op |-> "FAST_CHECK", thread |-> th]
  /\ UNCHANGED <<book, checkpoint, nEvents, replay>>

\* return g_sims_array[symbol_index] on the fast path
FastReturn(th) ==
  /\ sim.thread[th].pc = "fast_return"
  /\ sim' = Finish(th, sim.g_sims_array[sim.thread[th].symbol_index])
  /\ lastOp' = [op |-> "FAST_RETURN", thread |-> th]
  /\ UNCHANGED <<book, checkpoint, nEvents, replay>>

\* std::lock_guard on the shard mutex
Lock(th) ==
  /\ sim.thread[th].pc = "lock"
  /\ sim.g_shard_mutexes[get_shard_mutex(sim.thread[th].symbol_index)] = 0
  /\ sim' = [sim EXCEPT
               !.g_shard_mutexes[get_shard_mutex(sim.thread[th].symbol_index)]
                  = th,
               !.thread[th].pc = "slow_check"]
  /\ lastOp' = [op |-> "LOCK", thread |-> th]
  /\ UNCHANGED <<book, checkpoint, nEvents, replay>>

SlowCheck(th) ==
  /\ sim.thread[th].pc = "slow_check"
  /\ sim' = [sim EXCEPT !.thread[th].pc =
               AfterLock(sim.g_sims_initialized[sim.thread[th].symbol_index])]
  /\ lastOp' = [op |-> "SLOW_CHECK", thread |-> th]
  /\ UNCHANGED <<book, checkpoint, nEvents, replay>>

\* g_sims_array[symbol_index] = new PerSymbolSim()
Construct(th) ==
  /\ sim.thread[th].pc = "construct"
  /\ sim' = [sim EXCEPT
               !.allocations = @ + 1,
               !.constructed[sim.thread[th].symbol_index] = @ + 1,
               !.g_sims_array[sim.thread[th].symbol_index] =
                  sim.allocations + 1,
               !.thread[th].pc = "store_flag"]
  /\ lastOp' = [op |-> "CONSTRUCT", thread |-> th]
  /\ UNCHANGED <<book, checkpoint, nEvents, replay>>

\* g_sims_initialized[symbol_index].store(true, release)
StoreFlag(th) ==
  /\ sim.thread[th].pc = "store_flag"
  /\ sim' = [sim EXCEPT
               !.g_sims_initialized[sim.thread[th].symbol_index] = TRUE,
               !.thread[th].pc = "slow_return"]
  /\ lastOp' = [op |-> "STORE_FLAG", thread |-> th]
  /\ UNCHANGED <<book, checkpoint, nEvents, replay>>

\* return g_sims_array[symbol_index] under the lock, which is then released
SlowReturn(th) ==
  /\ sim.thread[th].pc = "slow_return"
  /\ sim' = [Finish(th, sim.g_sims_array[sim.thread[th].symbol_index])
               EXCEPT
               !.g_shard_mutexes[get_shard_mutex(sim.thread[th].symbol_index)]
                  = 0]
  /\ lastOp' = [op |-> "SLOW_RETURN", thread |-> th]
  /\ UNCHANGED <<book, checkpoint, nEvents, replay>>

NextThreads ==
  \/ \E th \in Threads : Call(th)
  \/ \E th \in Threads : FastCheck(th)
  \/ \E th \in Threads : FastReturn(th)
  \/ \E th \in Threads : Lock(th)
  \/ \E th \in Threads : SlowCheck(th)
  \/ \E th \in Threads : Construct(th)
  \/ \E th \in Threads : StoreFlag(th)
  \/ \E th \in Threads : SlowReturn(th)

SpecThreads == InitThreads /\ [][NextThreads]_vars

InSlowPath(th) ==
  sim.thread[th].pc \in {"slow_check", "construct", "store_flag",
                         "slow_return"}

(***************************************************************************)
(* C19: lazy simulator creation is race-free.  Under any interleaving of   *)
(* threads in get_or_create_sim_fast, at most one PerSymbolSim is          *)
(* constructed per index and exactly one once a caller has returned for    *)
(* it; every caller of an index receives the one non-null pointer stored   *)
(* for it; while the flag reads true the stored pointer is non-null, so    *)
(* the fast path never returns nullptr; and a thread is on the locked      *)
(* path only after it has read the flag false.                             *)
(***************************************************************************)
C19_LazyCreation ==
  /\ \A idx \in TableIndexes :
       /\ sim.constructed[idx] <= 1
       /\ sim.g_sims_initialized[idx] =>
            /\ sim.g_sims_array[idx] # nullptr
            /\ sim.constructed[idx] = 1
  /\ \A r \in sim.returned :
       /\ r[2] # nullptr
       /\ r[2] = sim.g_sims_array[r[1]]
       /\ sim.constructed[r[1]] = 1
  /\ \A th \in Threads :
       /\ sim.thread[th].pc = "fast_return" =>
            sim.g_sims_array[sim.thread[th].symbol_index] # nullptr
       /\ (InSlowPath(th) \/ sim.thread[th].pc = "lock") =>
            ~sim.thread[th].saw_flag
       /\ InSlowPath(th) =>
            sim.g_shard_mutexes[get_shard_mutex(sim.thread[th].symbol_index)]
              = th

\* every thread has returned the one pointer of the same index, one of them
\* through the locked path and one through the fast path
C19_Witness ==
  /\ \E idx \in TableIndexes :
       /\ sim.constructed[idx] = 1
       /\ \A th \in Threads :
            /\ sim.thread[th].pc = "idle"
            /\ sim.thread[th].symbol_index = idx
            /\ sim.thread[th].result = sim.g_sims_array[idx]
       /\ \E th \in Threads : sim.thread[th].saw_flag
       /\ \E th \in Threads : ~sim.thread[th].saw_flag
  /\ nEvents = MaxCalls

(***************************************************************************)
(* The locks a worker thread takes while it processes one message, from    *)
(* the lock_guard on the shard mutex in process_xdp_message to its         *)
(* release at the end of the call.  A message is reduced to the sequence   *)
(* of lock and unlock operations its handler performs, in program order;   *)
(* consecutive snapshot reads of one book that take and drop its mutex in  *)
(* the same way appear once.  The simulator of market_maker_sim.cpp owns   *)
(* one book and one strategy per strategy name.                            *)
(***************************************************************************)
MaxLockedMsgs == 3

LockedIndexes == {1, 2, 1 + NUM_LOCK_SHARDS}

Acq(kind, x) == [op |-> "acq", kind |-> kind, x |-> x]
Rel(kind, x) == [op |-> "rel", kind |-> kind, x |-> x]

\* OrderBook member functions: lock_guard on mtx_ for the whole call
BookCall(x) == <<Acq("book", x), Rel("book", x)>>

\* get_current_quotes, on_order_filled: lock_guard on strategy_mutex_
StrategyCall(x) == <<Acq("strategy", x), Rel("strategy", x)>>

\* update_market_data: the book reads of the toxicity screen first, then
\* strategy_mutex_ for the rest of the call, under which get_stats() and the
\* spread calculation read the book
update_market_data_locks(x) ==
  (IF x = "toxicity" THEN BookCall(x) ELSE <<>>)
    \o <<Acq("strategy", x)>> \o BookCall(x) \o <<Rel("strategy", x)>>

\* on_add: order_book_baseline.add_order, order_book_toxicity.add_order
on_add_locks == BookCall("baseline") \o BookCall("toxicity")

\* update_quotes with the cadence test passed
update_quotes_locks ==
  BookCall("toxicity")
    \o update_market_data_locks("baseline")
    \o update_market_data_locks("toxicity")
    \o StrategyCall("baseline") \o StrategyCall("toxicity")

\* on_execute with a fill for each strategy
on_execute_locks ==
  update_quotes_locks
    \o StrategyCall("baseline") \o BookCall("toxicity")
    \o StrategyCall("toxicity") \o BookCall("toxicity")
    \o BookCall("baseline") \o BookCall("toxicity")

\* process_xdp_message without its sym_lock
MessageLocks_no_sym_lock(msg_type) ==
  IF msg_type = "ADD" THEN on_add_locks ELSE on_execute_locks

\* process_xdp_message from the sym_lock on
MessageLocks(msg_type) ==
  <<Acq("shard", "shard")>>
    \o (IF msg_type = "ADD" THEN on_add_locks ELSE on_execute_locks)
    \o <<Rel("shard", "shard")>>

LockedMsgTypes == {"ADD", "EXECUTE"}

\* the mutex an operation of a thread working on symbol_index names
MutexOf(e, symbol_index) ==
  IF e.kind = "shard" THEN <<"shard", get_shard_mutex(symbol_index), "shard">>
  ELSE <<e.kind, symbol_index, e.x>>

Mutexes ==
  {MutexOf(e, idx) :
     e \in {Acq(k[1], k[2]) :
              k \in {<<"shard", "shard">>} \cup ({"strategy", "book"} \X Strategies)},
     idx \in LockedIndexes}

IdleWorker == [pc |-> 0, msg_type |-> "ADD", symbol_index |-> 0]

InitLocks ==
  /\ book = EmptyBook
  /\ checkpoint = NoCheckpoint
  /\ nEvents = 0
  /\ replay = NotReplaying
  /\ lastOp = [op |-> "NEW"]
  /\ sim = [phase |-> "locks",
            owner |-> [mx \in Mutexes |-> 0],
            thread |-> [th \in Threads |-> IdleWorker]]

NextLockOp(th) ==
  MessageLocks(sim.thread[th].msg_type)[sim.thread[th].pc]

\* a worker has the simulator pointer and reaches the sym_lock
BeginMessage(th) ==
  /\ sim.thread[th].pc = 0
  /\ nEvents < MaxLockedMsgs
  /\ \E msg_type \in LockedMsgTypes, symbol_index \in LockedIndexes :
       sim' = [sim EXCEPT !.thread[th] =
                 [pc |-> 1, msg_type |-> msg_type,
                  symbol_index |-> symbol_index]]
  /\ nEvents' = nEvents + 1
  /\ lastOp' = [op |-> "BEGIN", thread |-> th]
  /\ UNCHANGED <<book, checkpoint, replay>>

\* a lock_guard constructor: blocks while another thread owns the mutex
Acquire(th) ==
  /\ sim.thread[th].pc > 0
  /\ NextLockOp(th).op = "acq"
  /\ sim.owner[MutexOf(NextLockOp(th), sim.thread[th].symbol_index)] = 0
  /\ sim' = [sim EXCEPT
               !.owner[MutexOf(NextLockOp(th), sim.thread[th].symbol_index)]
                  = th,
               !.thread[th].pc = @ + 1]
  /\ lastOp' = [op |-> "ACQUIRE", thread |-> th]
  /\ UNCHANGED <<book, checkpoint, nEvents, replay>>

\* a lock_guard destructor; the one of sym_lock ends the message
Release(th) ==
  /\ sim.thread[th].pc > 0
  /\ NextLockOp(th).op = "rel"
  /\ sim' = [sim EXCEPT
               !.owner[MutexOf(NextLockOp(th), sim.thread[th].symbol_index)]
                  = 0,
               !.thread[th].pc =
                  IF @ = Len(MessageLocks(sim.thread[th].msg_type))
                  THEN 0 ELSE @ + 1]
  /\ lastOp' = [op |-> "RELEASE", thread |-> th]
  /\ UNCHANGED <<book, checkpoint, nEvents, replay>>

NextLocks ==
  \/ \E th \in Threads : BeginMessage(th)
  \/ \E th \in Threads : Acquire(th)
  \/ \E th \in Threads : Release(th)

SpecLocks == InitLocks /\ [][NextLocks]_vars

HeldBy(th) == {mx \in Mutexes : sim.owner[mx] = th}

(***************************************************************************)
(* C20: locking discipline.  At no point during message processing does a  *)
(* thread hold two locks at once (shard mutex, strategy mutex, book        *)
(* mutex): each lock is released before another is acquired.               *)
(***************************************************************************)
C20_OneLockAtATime ==
  \A th \in Threads : Cardinality(HeldBy(th)) <= 1

(***************************************************************************)
(* group_files, as main calls it in the hybrid mode: at least two files,   *)
(* already sorted by name, and at least one group.  A file name is its     *)
(* rank in lexicographic order; a file's size is a function of its name    *)
(* (get_file_size).  std::sort is not stable: any order with the sizes     *)
(* descending may come out of it.  picks records, for each assignment,     *)
(* the group chosen and the accumulated sizes it was chosen from.          *)
(***************************************************************************)
MaxFiles == 3
MaxNames == 3
MaxFileSize == 2
MaxGroups == 3

FileNames == 1..MaxNames

FileLists ==
  {fl \in UNION {[1..n -> FileNames] : n \in 2..MaxFiles} :
     \A i \in 1..(Len(fl) - 1) : fl[i] <= fl[i + 1]}

Range(f) == {f[i] : i \in DOMAIN f}

\* the orders std::sort may leave: a permutation with sizes descending
SizeSorted(file_sizes) ==
  {s \in [1..Len(file_sizes) -> Range(file_sizes)] :
     /\ \A e \in Range(file_sizes) :
          Cardinality({i \in 1..Len(s) : s[i] = e})
            = Cardinality({i \in 1..Len(file_sizes) : file_sizes[i] = e})
     /\ \A i \in 1..(Len(s) - 1) : s[i].size >= s[i + 1].size}

\* a choice of group that ignores the accumulated sizes
MinIndex_first_group(group_sizes) == 1

\* the scan for the group with minimum total size: the first minimum
MinIndex(group_sizes) ==
  CHOOSE i \in 1..Len(group_sizes) :
    /\ \A j \in 1..Len(group_sizes) : group_sizes[i] <= group_sizes[j]
    /\ \A j \in 1..(i - 1) : group_sizes[j] > group_sizes[i]

RECURSIVE InsertByName(_, _)
InsertByName(seq, name) ==
  IF seq = <<>> THEN <<name>>
  ELSE IF name < Head(seq) THEN <<name>> \o seq
  ELSE <<Head(seq)>> \o InsertByName(Tail(seq), name)

\* std::sort(group.begin(), group.end())
RECURSIVE SortByName(_)
SortByName(seq) ==
  IF seq = <<>> THEN <<>>
  ELSE InsertByName(SortByName(Tail(seq)), Head(seq))

\* groups.erase(std::remove_if(... g.empty() ...))
RemoveEmpty(groups) == SelectSeq(groups, LAMBDA g : g # <<>>)

GroupingOf(files, num_groups, size_of) ==
  [phase |-> "grouping", pc |-> "sort",
   files |-> files, num_groups |-> num_groups, size_of |-> size_of,
   file_sizes |-> [i \in 1..Len(files) |->
                     [file |-> files[i], size |-> size_of[files[i]]]],
   next |-> 1,
   groups |-> [g \in 1..num_groups |-> <<>>],
   group_sizes |-> [g \in 1..num_groups |-> 0],
   picks |-> <<>>]

InitGrouping ==
  /\ book = EmptyBook
  /\ checkpoint = NoCheckpoint
  /\ nEvents = 0
  /\ replay = NotReplaying
  /\ lastOp = [op |-> "NEW"]
  /\ \E files \in FileLists, num_groups \in 1..MaxGroups,
        size_of \in [FileNames -> 0..MaxFileSize] :
       sim = GroupingOf(files, num_groups, size_of)

\* std::sort by size, descending
SortFiles ==
  /\ sim.pc = "sort"
  /\ \E s \in SizeSorted(sim.file_sizes) :
       sim' = [sim EXCEPT !.file_sizes = s, !.pc = "assign"]
  /\ lastOp' = [op |-> "SORT"]
  /\ UNCHANGED <<book, checkpoint, nEvents, replay>>

\* one pass of the greedy loop
AssignFile ==
  /\ sim.pc = "assign"
  /\ sim.next <= Len(sim.file_sizes)
  /\ sim' = [sim EXCEPT
               !.groups[MinIndex(sim.group_sizes)] =
                  Append(@, sim.file_sizes[sim.next].file),
               !.group_sizes[MinIndex(sim.group_sizes)] =
                  @ + sim.file_sizes[sim.next].size,
               !.picks = Append(@, [file |-> sim.file_sizes[sim.next],
                                    group |-> MinIndex(sim.group_sizes),
                                    sizes |-> sim.group_sizes]),
               !.next = @ + 1]
  /\ lastOp' = [op |-> "ASSIGN"]
  /\ UNCHANGED <<book, checkpoint, nEvents, replay>>

\* the sort within each group and the removal of the empty groups
FinishGroups ==
  /\ sim.pc = "assign"
  /\ sim.next > Len(sim.file_sizes)
  /\ sim' = [sim EXCEPT
               !.groups = RemoveEmpty([g \in 1..sim.num_groups |->
                                         SortByName(sim.groups[g])]),
               !.pc = "done"]
  /\ lastOp' = [op |-> "FINISH"]
  /\ UNCHANGED <<book, checkpoint, nEvents, replay>>

NextGrouping ==
  \/ SortFiles
  \/ AssignFile
  \/ FinishGroups

SpecGrouping == InitGrouping /\ [][NextGrouping]_vars

\* how many times a name occurs in a list, and in all the groups together
CountIn(seq, name) == Cardinality({i \in 1..Len(seq) : seq[i] = name})

RECURSIVE CountInGroups(_, _)
CountInGroups(groups, name) ==
  IF groups = <<>> THEN 0
  ELSE CountIn(Head(groups), name) + CountInGroups(Tail(groups), name)

HybridGroups == 2

GroupIds == 1..HybridGroups

ZeroRecord == [value |-> 0, completed |-> FALSE]

\* the test that decides whether a record is added to the totals
Aggregated(shared_results) ==
  {g \in GroupIds : shared_results[g].completed}

RECURSIVE SumValues(_, _)
SumValues(shared_results, S) ==
  IF S = {} THEN 0
  ELSE LET g == CHOOSE x \in S : TRUE
       IN shared_results[g].value + SumValues(shared_results, S \ {g})

InitHybrid ==
  /\ book = EmptyBook
  /\ checkpoint = NoCheckpoint
  /\ nEvents = 0
  /\ replay = NotReplaying
  /\ lastOp = [op |-> "NEW"]
  /\ sim = [phase |-> "hybrid", pc |-> "mmap",
            shared_results |-> [g \in GroupIds |-> ZeroRecord],
            group_idx |-> 1,
            children |-> <<>>,
            waited |-> 0,
            fork_failed |-> {},
            child |-> [g \in GroupIds |-> "none"],
            children_completed |-> 0,
            children_crashed |-> 0,
            included |-> {},
            total |-> 0,
            exit_code |-> -1]

\* mmap and memset; MAP_FAILED returns 1
MapSharedMemory ==
  /\ sim.pc = "mmap"
  /\ \E ok \in BOOLEAN :
       sim' = IF ok THEN [sim EXCEPT !.pc = "fork"]
              ELSE [sim EXCEPT !.pc = "exited", !.exit_code = 1]
  /\ lastOp' = [op |-> "MMAP"]
  /\ UNCHANGED <<book, checkpoint, nEvents, replay>>

\* one pass of the fork loop in the parent: pid < 0 continues with the next
\* group, pid > 0 is pushed onto children
Fork ==
  /\ sim.pc = "fork"
  /\ sim.group_idx <= HybridGroups
  /\ \E ok \in BOOLEAN :
       sim' = IF ok
              THEN [sim EXCEPT !.child[sim.group_idx] = "working",
                               !.children = Append(@, sim.group_idx),
                               !.group_idx = @ + 1]
              ELSE [sim EXCEPT !.fork_failed = @ \cup {sim.group_idx},
                               !.group_idx = @ + 1]
  /\ lastOp' = [op |-> "FORK", group |-> sim.group_idx]
  /\ UNCHANGED <<book, checkpoint, nEvents, replay>>

ForkLoopEnds ==
  /\ sim.pc = "fork"
  /\ sim.group_idx > HybridGroups
  /\ sim' = [sim EXCEPT !.pc = "wait"]
  /\ lastOp' = [op |-> "FORKED"]
  /\ UNCHANGED <<book, checkpoint, nEvents, replay>>

\* process_file_group: the result fields are written
ChildWritesFields(g) ==
  /\ sim.child[g] = "working"
  /\ sim' = [sim EXCEPT !.child[g] = "written",
                        !.shared_results[g].value = g]
  /\ lastOp' = [op |-> "CHILD_WRITE", group |-> g]
  /\ UNCHANGED <<book, checkpoint, nEvents, replay>>

\* results->completed = true
ChildSetsCompleted(g) ==
  /\ sim.child[g] = "written"
  /\ sim' = [sim EXCEPT !.child[g] = "completed",
                        !.shared_results[g].completed = TRUE]
  /\ lastOp' = [op |-> "CHILD_COMPLETED", group |-> g]
  /\ UNCHANGED <<book, checkpoint, nEvents, replay>>

\* the prints after the record is complete, then _exit(0)
ChildExits(g) ==
  /\ sim.child[g] = "completed"
  /\ sim' = [sim EXCEPT !.child[g] = "exited0"]
  /\ lastOp' = [op |-> "CHILD_EXIT", group |-> g]
  /\ UNCHANGED <<book, checkpoint, nEvents, replay>>

\* the child is terminated by a signal
ChildKilled(g) ==
  /\ sim.child[g] \in {"working", "written", "completed"}
  /\ sim' = [sim EXCEPT !.child[g] = "signaled"]
  /\ lastOp' = [op |-> "CHILD_KILLED", group |-> g]
  /\ UNCHANGED <<book, checkpoint, nEvents, replay>>

\* waitpid on the next child and the classification of its status
Wait ==
  /\ sim.pc = "wait"
  /\ sim.waited < Len(sim.children)
  /\ sim.child[sim.children[sim.waited + 1]] \in {"exited0", "signaled"}
  /\ sim' = [sim EXCEPT
               !.waited = @ + 1,
               !.children_completed =
                  IF sim.child[sim.children[sim.waited + 1]] = "exited0"
                  THEN @ + 1 ELSE @,
               !.children_crashed =
                  IF sim.child[sim.children[sim.waited + 1]] = "signaled"
                  THEN @ + 1 ELSE @]
  /\ lastOp' = [op |-> "WAIT"]
  /\ UNCHANGED <<book, checkpoint, nEvents, replay>>

\* the aggregation loop, the report and return 0
Aggregate ==
  /\ sim.pc = "wait"
  /\ sim.waited = Len(sim.children)
  /\ sim' = [sim EXCEPT
               !.included = Aggregated(sim.shared_results),
               !.total = SumValues(sim.shared_results,
                                   Aggregated(sim.shared_results)),
               !.pc = "exited",
               !.exit_code = 0]
  /\ lastOp' = [op |-> "AGGREGATE"]
  /\ UNCHANGED <<book, checkpoint, nEvents, replay>>

NextHybrid ==
  \/ MapSharedMemory
  \/ Fork
  \/ ForkLoopEnds
  \/ \E g \in GroupIds : ChildWritesFields(g)
  \/ \E g \in GroupIds : ChildSetsCompleted(g)
  \/ \E g \in GroupIds : ChildExits(g)
  \/ \E g \in GroupIds : ChildKilled(g)
  \/ Wait
  \/ Aggregate

SpecHybrid == InitHybrid /\ [][NextHybrid]_vars

(***************************************************************************)
(* C22: results from a crashed child are excluded.  The parent adds a      *)
(* group's record into the totals only if that group's child terminated    *)
(* normally with exit 0 and completed = true; a child that was terminated  *)
(* by a signal contributes nothing, whatever it wrote before dying.        *)
(***************************************************************************)
C22_CrashedChildExcluded ==
  (sim.pc = "exited" /\ sim.exit_code = 0) =>
    /\ \A g \in sim.included :
         sim.child[g] = "exited0" /\ sim.shared_results[g].completed
    /\ sim.total = SumValues(sim.shared_results,
                             {g \in GroupIds : sim.child[g] = "exited0"})

(***************************************************************************)
(* C23: on a fork failure for any group, as on a shared-memory mapping     *)
(* failure, the parent aborts the run and exits non-zero: it does not      *)
(* spawn the remaining groups and report aggregated results with exit 0.   *)
(***************************************************************************)
C23_ForkFailureAborts ==
  sim.fork_failed # {} =>
    /\ \A g \in GroupIds :
         (\E f \in sim.fork_failed : f < g) => sim.child[g] = "none"
    /\ sim.pc = "exited" => sim.exit_code # 0

(***************************************************************************)
(* order_info with its entry ages.  on_add and on_replace stamp each entry *)
(* with the capture timestamp, and on_add purges entries older than        *)
(* MAX_ORDER_AGE_NS when more than CLEANUP_INTERVAL_NS passed since the    *)
(* last purge.  A timestamp is a pair <<seconds, nanoseconds>>: clock_s    *)
(* holds the whole seconds of the capture timestamp and clock_ns the rest. *)
(* A message arrives either in the same second as the one before it, a     *)
(* time step later, or whole seconds and one look-forward horizon later;   *)
(* in both cases the sub-second tests of update_quotes and of fill         *)
(* matching, which compare clock_ns alone, decide as the full timestamps   *)
(* do, since every span they test is at most the look-forward horizon.     *)
(***************************************************************************)
CLEANUP_INTERVAL_NS == <<10, 0>>
MAX_ORDER_AGE_NS_ten_seconds == <<10, 0>>
MAX_ORDER_AGE_NS == <<60, 0>>
StartSeconds == 100
SecondSteps == {0, 11, 61}

\* now - then > span, on <<seconds, nanoseconds>> pairs
ElapsedMoreThan(now, then, span) ==
  \/ now[1] - then[1] > span[1]
  \/ /\ now[1] - then[1] = span[1]
     /\ now[2] - then[2] > span[2]

NowOf(s) == <<s.clock_s, s.clock_ns>>

\* the timestamp of a message k seconds after the last one
ArrivalAfter(s, k) ==
  IF k = 0 THEN NowOf(s) ELSE <<s.clock_s + k, s.clock_ns + LookforwardStepNs>>

\* the simulator after the messages of the seed, with the entry stamps:
\* the first ADD runs the first purge, last_cleanup_ns being 0 before it
Tracked(s) ==
  s @@ [clock_s |-> StartSeconds,
        add_time_ns |-> [id \in {1, 2} |-> <<StartSeconds, StartNs>>],
        last_cleanup_ns |-> <<StartSeconds, StartNs>>]

\* the stale order cleanup that ends on_add
cleanup_stale_orders(s, now) ==
  IF ElapsedMoreThan(now, s.last_cleanup_ns, CLEANUP_INTERVAL_NS)
  THEN [s EXCEPT !.last_cleanup_ns = now,
                 !.order_info =
                   [id \in {x \in DOMAIN s.order_info :
                              ~ElapsedMoreThan(now, s.add_time_ns[x],
                                               MAX_ORDER_AGE_NS)} |->
                      s.order_info[id]]]
  ELSE s

on_add_at(s, order_id, price, volume, side, now) ==
  cleanup_stale_orders(
    [on_add(s, order_id, price, volume, side)
       EXCEPT !.add_time_ns = Put(@, order_id, now),
              !.clock_s = now[1], !.clock_ns = now[2]],
    now)

on_replace_at(s, old_order_id, new_order_id, price, volume, side, now) ==
  [on_replace(s, old_order_id, new_order_id, price, volume, side)
     EXCEPT !.add_time_ns = Put(@, new_order_id, now)]

InitTracking ==
  /\ checkpoint = NoCheckpoint
  /\ nEvents = 0
  /\ replay = NotReplaying
  /\ \E fill_mode \in FillModes :
       \E o \in SeedOutcomes(fill_mode) :
         /\ sim = Tracked(o.sim)
         /\ book = o.book
         /\ lastOp = o.lastOp

TrackedAdd ==
  /\ nEvents < MaxSimEvents
  /\ \E order_id \in Ids, price \in Prices, volume \in SimVolumes,
        side \in Sides, k \in SecondSteps :
       /\ sim' = on_add_at(sim, order_id, price, volume, side,
                           ArrivalAfter(sim, k))
       /\ book' = add_order(book, order_id, price, volume, side)
       /\ lastOp' = [op |-> "ADD", order_id |-> order_id, price |-> price,
                     volume |-> volume, side |-> side]
  /\ nEvents' = nEvents + 1
  /\ UNCHANGED <<checkpoint, replay>>

TrackedReplace ==
  /\ nEvents < MaxSimEvents
  /\ \E old_order_id \in Ids, new_order_id \in Ids, price \in Prices,
        volume \in SimVolumes, side \in Sides :
       /\ sim' = on_replace_at(sim, old_order_id, new_order_id, price, volume,
                               side, NowOf(sim))
       /\ book' = add_order(delete_order(book, old_order_id), new_order_id,
                            price, volume, side)
       /\ lastOp' = [op |-> "REPLACE", order_id |-> old_order_id,
                     new_order_id |-> new_order_id, price |-> price,
                     volume |-> volume, side |-> side]
  /\ nEvents' = nEvents + 1
  /\ UNCHANGED <<checkpoint, replay>>

NextTracking ==
  \/ TrackedAdd
  \/ SimModify
  \/ SimDelete
  \/ TrackedReplace
  \/ SimExecute

SpecTracking == InitTracking /\ [][NextTracking]_vars

\* what a strategy has traded: its fill count, inventory and pending fills
Traded(s) ==
  [x \in Strategies |->
     <<s.risk[x].total_fills, s.mm[x].inventory_, s.pending_fills[x]>>]

\* the step handled an EXECUTE of an order resting in the book
ExecutesResting ==
  /\ lastOp'.op = "EXECUTE"
  /\ Has(book.active_orders_, lastOp'.order_id)

\* on_execute ran maybe_fill_on_execution with the side the order rests on
FillMatchingRan ==
  /\ lastOp'.found
  /\ lastOp'.resting_side = book.active_orders_[lastOp'.order_id].side
  /\ sim' = [TrackExecuted(
               FillBoth(lastOp'.quoted, book, lastOp'.resting_side,
                        lastOp'.exec_price, lastOp'.exec_qty,
                        lastOp'.now_ns),
               lastOp'.order_id, lastOp'.exec_qty)
               EXCEPT !.clock_ns = lastOp'.now_ns]

OnlyExecuteTrades == (lastOp'.op # "EXECUTE") => (Traded(sim') = Traded(sim))

(***************************************************************************)
(* C24 as stated: every EXECUTE for an order resting in the book runs      *)
(* maybe_fill_on_execution with the order's resting side, and no other     *)
(* event changes a strategy's fills, inventory or pending fills.           *)
(***************************************************************************)
C24_ExecuteOfRestingOrder ==
  [][(ExecutesResting => FillMatchingRan) /\ OnlyExecuteTrades]_vars

\* the executed order was added at most 60 s before the EXECUTE
AddedRecently ==
  ~ElapsedMoreThan(<<sim'.clock_s, sim'.clock_ns>>,
                   sim.add_time_ns[lastOp'.order_id], <<60, 0>>)

(***************************************************************************)
(* C24, amended: every EXECUTE for an order resting in the book that was   *)
(* added no more than 60 s of capture time earlier runs                    *)
(* maybe_fill_on_execution with the order's resting side (quote update,    *)
(* then fill matching for both strategies), and no event other than        *)
(* EXECUTE changes a strategy's fills, inventory or pending fills.         *)
(***************************************************************************)
C24_ExecuteOfTrackedOrder ==
  [][((ExecutesResting /\ AddedRecently) => FillMatchingRan)
     /\ OnlyExecuteTrades]_vars

\* an order that survived a purge is executed and fills a strategy
C24_Witness ==
  /\ lastOp.op = "EXECUTE"
  /\ lastOp.found
  /\ sim.clock_s = StartSeconds + 11
  /\ sim.last_cleanup_ns[1] = StartSeconds + 11
  /\ \E x \in Strategies : sim.risk[x].total_fills > 0

\* the step handled an EXECUTE whose update_quotes call passed the cadence
\* test and found the symbol eligible, so it reached the risk checks
QuoteUpdateOnEligible ==
  /\ lastOp'.op = "EXECUTE"
  /\ lastOp'.found
  /\ lastOp'.quoted.last_quote_update_ns = lastOp'.now_ns
  /\ lastOp'.quoted.eligible_to_trade

(***************************************************************************)
(* C25: risk-limit trigger.  At every quote update on an eligible symbol,  *)
(* a strategy whose realized, unrealized and adverse-selection PnL sum to  *)
(* less than -max_daily_loss_per_symbol is halted by that update.          *)
(***************************************************************************)
C25_RiskLimitTrigger ==
  [][QuoteUpdateOnEligible =>
       \A x \in Strategies :
         ~RiskLimitsPass(lastOp'.quoted.risk[x]) =>
           /\ lastOp'.quoted.risk[x].halted
           /\ sim'.risk[x].halted]_vars

\* a virtual order that update_virtual_order re-places whatever the quote:
\* it is not live, or its size was filled entirely
NeedsRefresh(vo) == ~vo.live \/ vo.remaining = 0

\* the virtual order was re-placed by the update at now_ns: stamped with
\* now_ns plus a latency sample, and full again unless the quote is withdrawn
Refreshed(vo, now_ns) ==
  /\ vo.active_at_ns >= now_ns + MinLatencyNs
  /\ vo.remaining > 0 \/ ~vo.live

(***************************************************************************)
(* C26: halting is per strategy.  When one strategy is halted and the      *)
(* other is not, a later quote update on an eligible symbol still          *)
(* refreshes the virtual orders of the strategy that is not halted: a      *)
(* drained or withdrawn virtual order of it is placed again.               *)
(***************************************************************************)
C26_HaltingPerStrategy ==
  [][\A x, y \in Strategies :
       ( /\ x # y
         /\ sim.risk[x].halted
         /\ ~sim.risk[y].halted
         /\ QuoteUpdateOnEligible
         /\ RiskLimitsPass(lastOp'.quoted.risk[y]) )
       => \A v \in VoSides :
            NeedsRefresh(sim.state[y][v]) =>
              Refreshed(lastOp'.quoted.state[y][v], lastOp'.now_ns)]_vars

(***************************************************************************)
(* Queue advancement on external cancels.  The feed carries prices in      *)
(* units of 1e-6 dollar, so a MODIFY can move an order by less than the    *)
(* 0.0001 dollar that on_modify and update_queue_on_cancel compare prices  *)
(* with: besides the messages of the simulator runs, a MODIFY may set a    *)
(* price half that tolerance above a price of the grid.                    *)
(***************************************************************************)
PriceOffset == 50

SimModifyOffGrid ==
  /\ nEvents < MaxSimEvents
  /\ \E order_id \in Ids, p \in Prices, volume \in SimVolumes :
       /\ sim' = on_modify(sim, order_id, p + PriceOffset, volume)
       /\ book' = modify_order(book, order_id, p + PriceOffset, volume)
       /\ lastOp' = [op |-> "MODIFY", order_id |-> order_id,
                     price |-> p + PriceOffset, volume |-> volume]
  /\ nEvents' = nEvents + 1
  /\ UNCHANGED <<checkpoint, replay>>

NextCancel ==
  \/ NextSim
  \/ SimModifyOffGrid

SpecCancel == InitSim /\ [][NextCancel]_vars

\* the order the step's message names, as tracked before the step
Leaving == sim.order_info[lastOp'.order_id]

\* the virtual order rests on the side of the book the tracked order is on
SameSide(v, side) == (v = "bid" /\ side = "B") \/ (v = "ask" /\ side = "S")

\* queue_ahead - volume, floored at zero
Advanced(vo, volume) ==
  [vo EXCEPT !.queue_ahead = IF @ > volume THEN @ - volume ELSE 0]

\* the step's message is for a tracked order
TrackedMessage(ops) ==
  /\ lastOp'.op \in ops
  /\ Has(sim.order_info, lastOp'.order_id)

QuotesPlaced ==
  /\ QuoteUpdateOnEligible
  /\ \A x \in Strategies : RiskLimitsPass(lastOp'.quoted.risk[x])

\* update_quotes of the step as it stands before the four calls
BeforePlacing ==
  [sim |-> [lastOp'.quoted EXCEPT !.state = sim.state], placing |-> TRUE]

\* the quote presented to the virtual order has the order's price and size
SameQuote(x, v) ==
  /\ QuotePrice(lastOp'.quoted.mm[x].current_quotes_, v) = sim.state[x][v].price
  /\ QuoteSize(lastOp'.quoted.mm[x].current_quotes_, v) = sim.state[x][v].size

\* the call left the virtual order as it was and drew no sample
LeftAsItWas(x, v) ==
  /\ lastOp'.quoted.state[x][v] = sim.state[x][v]
  /\ SamplesOf(BeforePlacing, book, VoIndex(x, v)) = 0

(***************************************************************************)
(* C28 as stated: a quote update that presents a virtual order with the    *)
(* price and size it already has leaves the order exactly as it was and    *)
(* consumes no random draw.                                                *)
(***************************************************************************)
C28_SameQuoteNoChange ==
  [][QuotesPlaced =>
       \A x \in Strategies : \A v \in VoSides :
         SameQuote(x, v) => LeftAsItWas(x, v)]_vars

(***************************************************************************)
(* C28, amended: a quote update that presents a live virtual order that    *)
(* has shares remaining with the price and size it already has leaves the  *)
(* order exactly as it was and consumes no random draw; an order that is   *)
(* not live or is drained is placed again even by an unchanged quote.      *)
(***************************************************************************)
C28_SameQuoteOnOpenOrder ==
  [][QuotesPlaced =>
       \A x \in Strategies : \A v \in VoSides :
         /\ ( /\ SameQuote(x, v)
              /\ sim.state[x][v].live
              /\ sim.state[x][v].remaining > 0 )
            => LeftAsItWas(x, v)
         /\ (~sim.state[x][v].live \/ sim.state[x][v].remaining = 0)
            => lastOp'.quoted.state[x][v].active_at_ns
                 >= lastOp'.now_ns + MinLatencyNs]_vars

\* a second quote update has placed quotes and found the baseline ask, live
\* and partly or wholly unfilled, at the price and size placed before
C28_Witness ==
  /\ nEvents >= 1
  /\ lastOp.op = "EXECUTE"
  /\ lastOp.found
  /\ lastOp.quoted.last_quote_update_ns = lastOp.now_ns
  /\ lastOp.quoted.eligible_to_trade
  /\ lastOp.quoted.mm["baseline"].current_quotes_.is_quoted
  /\ lastOp.quoted.state["baseline"]["ask"].live
  /\ lastOp.quoted.state["baseline"]["ask"].active_at_ns < lastOp.now_ns
  /\ lastOp.quoted.state["baseline"]["ask"].price
       = lastOp.quoted.mm["baseline"].current_quotes_.ask_price
  /\ lastOp.quoted.state["baseline"]["ask"].size
       = lastOp.quoted.mm["baseline"].current_quotes_.ask_size

\* the step's EXECUTE recorded a fill for strategy x
FillRecorded(x) ==
  /\ lastOp'.op = "EXECUTE"
  /\ lastOp'.found
  /\ Len(sim'.pending_fills[x]) > Len(lastOp'.quoted.pending_fills[x])

\* the record of that fill
NewFill(x) == sim'.pending_fills[x][Len(sim'.pending_fills[x])]

\* the step's update_quotes call passed the cadence test
QuoteUpdateRan ==
  /\ lastOp'.op = "EXECUTE"
  /\ lastOp'.found
  /\ lastOp'.quoted.last_quote_update_ns = lastOp'.now_ns

SuppressingInputs ==
  \/ lastOp'.avg_toxicity > toxicity_quote_threshold_pct
  \/ ~(calculate_expected_pnl(
         calculate_toxicity_adjusted_spread(TRUE, lastOp'.avg_toxicity),
         lastOp'.avg_toxicity,
         InventoryRisk(sim.mm["toxicity"].inventory_)) > 10000)

\* the toxicity strategy's fills and inventory are as before the step
ToxicityNotFilled ==
  /\ sim'.risk["toxicity"].total_fills = sim.risk["toxicity"].total_fills
  /\ sim'.mm["toxicity"].inventory_ = sim.mm["toxicity"].inventory_
  /\ Len(sim'.pending_fills["toxicity"]) <= Len(sim.pending_fills["toxicity"])

\* the update counted a suppression and took both virtual orders out
Withdrawn ==
  /\ lastOp'.quoted.mm["toxicity"].quotes_suppressed
       = sim.mm["toxicity"].quotes_suppressed + 1
  /\ ~lastOp'.quoted.mm["toxicity"].current_quotes_.is_quoted
  /\ \A v \in VoSides :
       /\ ~lastOp'.quoted.state["toxicity"][v].live
       /\ ~sim'.state["toxicity"][v].live
  /\ ToxicityNotFilled

\* the toxicity strategy has no quote out and the step places none
StaysOut ==
  /\ \A v \in VoSides : ~sim.state["toxicity"][v].live
  /\ ~( /\ QuotesPlaced
        /\ lastOp'.quoted.mm["toxicity"].current_quotes_.is_quoted )

(***************************************************************************)
(* C30: suppression takes the quote out of the market.  A quote update     *)
(* that leaves the toxicity strategy suppressed (average toxicity above    *)
(* the threshold, or expected PnL not above 0.0005) increments             *)
(* quotes_suppressed and leaves both of its virtual orders not live, and   *)
(* the strategy receives no fill until a later quote update produces a     *)
(* quote again.                                                            *)
(***************************************************************************)
C30_SuppressionWithdraws ==
  [][/\ (QuotesPlaced /\ SuppressingInputs) => Withdrawn
     /\ StaysOut =>
          /\ ToxicityNotFilled
          /\ \A v \in VoSides : ~sim'.state["toxicity"][v].live]_vars

\* with no toxic flow at all, the position taken by a fill makes the
\* expected PnL negative: a later update suppresses the toxicity quote, and
\* the EXECUTE that fills the baseline bid leaves the toxicity strategy out
C30_Witness ==
  /\ lastOp.op = "EXECUTE"
  /\ lastOp.found
  /\ lastOp.avg_toxicity = 0
  /\ lastOp.quoted.last_quote_update_ns = lastOp.now_ns
  /\ sim.mm["toxicity"].inventory_ # 0
  /\ sim.mm["toxicity"].quotes_suppressed >= 1
  /\ ~sim.mm["toxicity"].current_quotes_.is_quoted
  /\ \A v \in VoSides : ~sim.state["toxicity"][v].live
  /\ Len(sim.pending_fills["toxicity"])
       = Len(lastOp.quoted.pending_fills["toxicity"])
  /\ Len(sim.pending_fills["baseline"])
       > Len(lastOp.quoted.pending_fills["baseline"])

(***************************************************************************)
(* A strategy receiving the fills try_fill_one delivers, with the running  *)
(* totals of what was bought and sold kept beside it.  try_fill_one calls  *)
(* on_order_filled(is_bid_side, vo.price, fill_qty) with fill_qty > 0: a   *)
(* fill of the virtual bid is a buy, a fill of the virtual ask a sell.     *)
(***************************************************************************)
InitPosition ==
  /\ book = EmptyBook
  /\ checkpoint = NoCheckpoint
  /\ nEvents = 0
  /\ replay = NotReplaying
  /\ lastOp = [op |-> "NEW"]
  /\ \E m \in {NewStrategy, SimStrategy} :
       sim = [phase |-> "position", mm |-> m, bought |-> 0, sold |-> 0]

DeliverFill ==
  /\ nEvents < MaxFills
  /\ \E is_bid_side \in BOOLEAN, price \in Prices, fill_qty \in FillSizes :
       /\ sim' = [sim EXCEPT
                    !.mm = on_order_filled(@, is_bid_side, price, fill_qty),
                    !.bought = IF is_bid_side THEN @ + fill_qty ELSE @,
                    !.sold = IF is_bid_side THEN @ ELSE @ + fill_qty]
       /\ lastOp' = [op |-> "FILL", is_buy |-> is_bid_side, price |-> price,
                     size |-> fill_qty, before |-> sim.mm]
  /\ nEvents' = nEvents + 1
  /\ UNCHANGED <<book, checkpoint, replay>>

NextPosition == DeliverFill

SpecPosition == InitPosition /\ [][NextPosition]_vars

(***************************************************************************)
(* C31: position conservation.  After any sequence of fills the inventory  *)
(* is the quantity bought minus the quantity sold, total_volume_traded is  *)
(* the sum of the fill quantities, and the entry price is 0 whenever the   *)
(* inventory is 0.                                                         *)
(***************************************************************************)
C31_PositionConservation ==
  /\ sim.mm.inventory_ = sim.bought - sim.sold
  /\ sim.mm.total_volume_traded = sim.bought + sim.sold
  /\ sim.mm.inventory_ = 0 => sim.mm.avg_entry_price_ = 0

\* a buy larger than the short it meets: the fill crossed through zero and
\* the strategy is long by the rest, and an earlier fill had met a flat or
\* opposite position
C31_Witness ==
  /\ nEvents = MaxFills
  /\ lastOp.op = "FILL"
  /\ lastOp.is_buy
  /\ lastOp.before.inventory_ < 0
  /\ lastOp.size > -lastOp.before.inventory_
  /\ sim.mm.inventory_ = lastOp.size + lastOp.before.inventory_
  /\ sim.sold > 0

\* the order_info entry of id describes the order resting under id
TrackedAsResting(s, b, id) ==
  /\ Has(b.active_orders_, id)
  /\ b.active_orders_[id].side = s.order_info[id].side
  /\ b.active_orders_[id].price = s.order_info[id].price
  /\ b.active_orders_[id].volume = s.order_info[id].volume

OrderInfoConsistent ==
  \A id \in DOMAIN sim.order_info : TrackedAsResting(sim, book, id)

\* an ADD, with or without a purge, leaves resting what rested and adds
\* its own order
AddKeepsBook ==
  lastOp'.op = "ADD" =>
    /\ DOMAIN book'.active_orders_
         = DOMAIN book.active_orders_ \cup {lastOp'.order_id}
    /\ \A id \in DOMAIN book.active_orders_ \ {lastOp'.order_id} :
         book'.active_orders_[id] = book.active_orders_[id]

(***************************************************************************)
(* C32: order_info is a consistent partial view of the book.  After every  *)
(* event each tracked order id rests in the book with the same side, price *)
(* and remaining volume, and the stale-order cleanup of an ADD removes     *)
(* entries from order_info only, never from the book.                      *)
(***************************************************************************)
C32_OrderInfoPartialView == []OrderInfoConsistent /\ [][AddKeepsBook]_vars

\* an ADD more than 60 s after the first orders has purged a resting order
\* from order_info while another order is still tracked
C32_Witness ==
  /\ lastOp.op = "ADD"
  /\ sim.clock_s = StartSeconds + 61
  /\ sim.order_info # EmptyMap
  /\ \E id \in DOMAIN book.active_orders_ : ~Has(sim.order_info, id)

(***************************************************************************)
(* The toxicity strategy with the online model's override.  The book holds *)
(* one level a side, so the averages over the top three and the top five   *)
(* levels are the same level average, an input of every update in percent. *)
(***************************************************************************)
MaxOverrideCalls == 5
OverrideValues == {0, HighToxicityPct}

\* a bid and an ask two ticks apart
WideBook ==
  add_order(add_order(EmptyBook, 1, PriceStep, MaxSimVolume, "B"),
            2, 3 * PriceStep, MaxSimVolume, "S")

get_average_toxicity(s, level_average) ==
  IF s.use_override_toxicity_ THEN s.override_toxicity_ ELSE level_average

set_override_toxicity(s, toxicity) ==
  [s EXCEPT !.use_override_toxicity_ = TRUE, !.override_toxicity_ = toxicity]

clear_override_toxicity(s) ==
  [s EXCEPT !.use_override_toxicity_ = FALSE, !.override_toxicity_ = 0]

InitOverride ==
  /\ book \in {SeedBook, WideBook}
  /\ checkpoint = NoCheckpoint
  /\ nEvents = 0
  /\ replay = NotReplaying
  /\ lastOp = [op |-> "NEW"]
  /\ sim = [phase |-> "override", mm |-> SimStrategy,
            use_override_toxicity_ |-> FALSE, override_toxicity_ |-> 0]

SetOverride ==
  /\ nEvents < MaxOverrideCalls
  /\ \E toxicity \in OverrideValues :
       /\ sim' = set_override_toxicity(sim, toxicity)
       /\ lastOp' = [op |-> "SET", toxicity |-> toxicity]
  /\ nEvents' = nEvents + 1
  /\ UNCHANGED <<book, checkpoint, replay>>

ClearOverride ==
  /\ nEvents < MaxOverrideCalls
  /\ sim' = clear_override_toxicity(sim)
  /\ lastOp' = [op |-> "CLEAR"]
  /\ nEvents' = nEvents + 1
  /\ UNCHANGED <<book, checkpoint, replay>>

UpdateMarketData ==
  /\ nEvents < MaxOverrideCalls
  /\ \E level_average \in ToxicityDraws :
       /\ sim' = [sim EXCEPT !.mm =
                    update_market_data_from(
                      @, book, TRUE, level_average,
                      get_average_toxicity(sim, level_average))]
       /\ lastOp' = [op |-> "UPDATE", level_average |-> level_average,
                     before |-> sim.mm]
  /\ nEvents' = nEvents + 1
  /\ UNCHANGED <<book, checkpoint, replay>>

\* a fill between updates, as try_fill_one delivers it
OverrideFill ==
  /\ nEvents < MaxOverrideCalls
  /\ \E is_bid_side \in BOOLEAN :
       /\ sim' = [sim EXCEPT !.mm =
                    on_order_filled(@, is_bid_side,
                                    IF is_bid_side THEN PriceStep
                                    ELSE 2 * PriceStep, FillLot)]
       /\ lastOp' = [op |-> "FILL", is_buy |-> is_bid_side]
  /\ nEvents' = nEvents + 1
  /\ UNCHANGED <<book, checkpoint, replay>>

NextOverride ==
  \/ SetOverride
  \/ ClearOverride
  \/ UpdateMarketData
  \/ OverrideFill

SpecOverride == InitOverride /\ [][NextOverride]_vars

(***************************************************************************)
(* C33: online-model override.  Once set_override_toxicity has been        *)
(* called, and until clear_override_toxicity, every use of the average     *)
(* toxicity in the quote computation (spread widening, suppression         *)
(* threshold, expected PnL) takes the override value: the quotes of an     *)
(* update are those computed from the override alone.                      *)
(***************************************************************************)
C33_OverrideEverywhere ==
  (lastOp.op = "UPDATE" /\ sim.use_override_toxicity_) =>
    sim.mm = update_market_data_from(lastOp.before, book, TRUE,
                                     sim.override_toxicity_,
                                     sim.override_toxicity_)

(***************************************************************************)
(* One strategy's pending-fill buffer between measurement passes.  A run   *)
(* starts right after a pass, with a backlog of one-share fills taken in   *)
(* bursts one quote interval apart, none of them a lookforward old; the    *)
(* book stays the seed book, so that no fill is charged.                   *)
(***************************************************************************)
MaxBufferEvents == 3
BurstLen == 2000
MaxBacklog == 12000
BacklogSizes == {0, ForcedPruneAbove - 1, ForcedPruneAbove,
                 ForcedPruneAbove + 1, MaxBacklog}
RemainingDraws == {1, base_quote_size_}
PartStepNs == 210000
PassStepsNs == {LongStepNs, PartStepNs, LookforwardStepNs}

BurstTime(i) == StartNs + ((i - 1) \div BurstLen) * quote_update_interval_us * 1000

Backlog(n) ==
  [i \in 1..n |->
     [fill_time_ns |-> BurstTime(i), fill_price |-> PriceStep,
      fill_qty |-> 1, is_buy |-> (i % 2 = 1),
      mid_price_at_fill |-> SeedBook.stats_.mid_price]]

InitBuffer ==
  /\ book = SeedBook
  /\ checkpoint = NoCheckpoint
  /\ nEvents = 0
  /\ replay = NotReplaying
  /\ lastOp = [op |-> "NEW"]
  /\ \E n \in BacklogSizes, bid \in RemainingDraws, ask \in RemainingDraws :
       sim = [phase |-> "buffer", pending_fills |-> Backlog(n),
              remaining |-> [bid |-> bid, ask |-> ask],
              now_ns |-> BurstTime(MaxBacklog),
              after_pass |-> n, available |-> bid + ask]

\* update_quotes past the cadence test: the measurement pass, then the
\* virtual orders refreshed (remaining = size) or left as they are
BufferPass ==
  /\ nEvents < MaxBufferEvents
  /\ \E step \in PassStepsNs, refreshed \in BOOLEAN :
       LET now_ns == sim.now_ns + step
           m == measure_adverse_selection(sim.pending_fills, NewRiskState,
                                          book, now_ns)
           remaining == IF refreshed
                        THEN [bid |-> base_quote_size_,
                              ask |-> base_quote_size_]
                        ELSE sim.remaining
       IN /\ sim' = [sim EXCEPT !.pending_fills = m.fills,
                                !.remaining = remaining,
                                !.now_ns = now_ns,
                                !.after_pass = Len(m.fills),
                                !.available = remaining.bid + remaining.ask]
          /\ lastOp' = [op |-> "PASS", found |-> Len(sim.pending_fills)]
  /\ nEvents' = nEvents + 1
  /\ UNCHANGED <<book, checkpoint, replay>>

\* try_fill_one reaching its push_back: fill_qty is at least one share and
\* at most the order's remaining
BufferFill ==
  /\ nEvents < MaxBufferEvents
  /\ \E v \in VoSides :
       /\ sim.remaining[v] > 0
       /\ \E fill_qty \in {1, sim.remaining[v]} :
            /\ sim' = [sim EXCEPT
                 !.remaining[v] = @ - fill_qty,
                 !.pending_fills =
                    Append(@, FillRecord(book, [price |-> PriceStep],
                                         fill_qty, v = "bid", sim.now_ns))]
            /\ lastOp' = [op |-> "FILL", fill_qty |-> fill_qty]
  /\ nEvents' = nEvents + 1
  /\ UNCHANGED <<book, checkpoint, replay>>

NextBuffer ==
  \/ BufferPass
  \/ BufferFill

SpecBuffer == InitBuffer /\ [][NextBuffer]_vars

\* after a pass the buffer is within its size, and a buffer found too long
\* is down to ForcedPruneKeeps entries at most
BoundedAfterPass ==
  lastOp.op = "PASS" =>
    /\ Len(sim.pending_fills) <= ForcedPruneAbove
    /\ lastOp.found > ForcedPruneAbove =>
         Len(sim.pending_fills) <= ForcedPruneKeeps

\* since the last pass the buffer grew by no more than the shares its two
\* virtual orders held after that pass
BoundedGrowth ==
  Len(sim.pending_fills) <= sim.after_pass + sim.available

\* the entries a pass keeps are the newest of the buffer
PassKeepsNewest ==
  lastOp'.op = "PASS" =>
    sim'.pending_fills =
      SubSeq(sim.pending_fills,
             Len(sim.pending_fills) - Len(sim'.pending_fills) + 1,
             Len(sim.pending_fills))

(***************************************************************************)
(* C34: pending-fill buffers are bounded.  After every measurement pass a  *)
(* buffer holds at most 10,000 entries, a buffer found above 10,000 is     *)
(* pruned to at most its newest 5,000, and between two passes it grows by  *)
(* no more than the shares available in the strategy's two virtual orders. *)
(***************************************************************************)
C34_PendingFillsBounded ==
  /\ [](BoundedAfterPass /\ BoundedGrowth)
  /\ [][PassKeepsNewest]_vars

\* a pass found a buffer above 10,000 entries and pruned it, and the
\* buffer has grown since
C34_Witness ==
  /\ lastOp.op = "FILL"
  /\ sim.after_pass = ForcedPruneKeeps
  /\ Len(sim.pending_fills) = ForcedPruneKeeps + 1

(***************************************************************************)
(* Threaded dispatch of one message: get_or_create_sim_fast, whose slow    *)
(* path takes the shard mutex when the fast check read the flag false,     *)
(* then process_xdp_message from its sym_lock on.  The flag of an index    *)
(* is true from the end of the first slow path for it.                     *)
(***************************************************************************)
MaxDispatched == 3

\* a slow path that returns with the shard mutex still locked
get_or_create_sim_fast_locks_keeps_lock(slow) ==
  IF slow THEN <<Acq("shard", "shard")>> ELSE <<>>

\* the lock_guard of the slow path lives until the function returns
get_or_create_sim_fast_locks(slow) ==
  IF slow THEN <<Acq("shard", "shard"), Rel("shard", "shard")>> ELSE <<>>

DispatchLocks(msg_type, slow) ==
  get_or_create_sim_fast_locks(slow) \o MessageLocks(msg_type)

IdleDispatch == [pc |-> 0, msg_type |-> "ADD", symbol_index |-> 0,
                 slow |-> FALSE]

InitDispatch ==
  /\ book = EmptyBook
  /\ checkpoint = NoCheckpoint
  /\ nEvents = 0
  /\ replay = NotReplaying
  /\ lastOp = [op |-> "NEW"]
  /\ sim = [phase |-> "dispatch",
            owner |-> [mx \in Mutexes |-> 0],
            g_sims_initialized |-> [idx \in LockedIndexes |-> FALSE],
            thread |-> [th \in Threads |-> IdleDispatch]]

OpsOf(th) == DispatchLocks(sim.thread[th].msg_type, sim.thread[th].slow)

NextDispatchOp(th) == OpsOf(th)[sim.thread[th].pc]

\* a worker enters process_xdp_message and the fast check reads the flag
BeginDispatch(th) ==
  /\ sim.thread[th].pc = 0
  /\ nEvents < MaxDispatched
  /\ \E msg_type \in LockedMsgTypes, symbol_index \in LockedIndexes :
       sim' = [sim EXCEPT !.thread[th] =
                 [pc |-> 1, msg_type |-> msg_type,
                  symbol_index |-> symbol_index,
                  slow |-> ~sim.g_sims_initialized[symbol_index]]]
  /\ nEvents' = nEvents + 1
  /\ lastOp' = [op |-> "BEGIN", thread |-> th]
  /\ UNCHANGED <<book, checkpoint, replay>>

\* a lock_guard constructor: blocks while any thread owns the mutex
DispatchAcquire(th) ==
  /\ sim.thread[th].pc > 0
  /\ sim.thread[th].pc <= Len(OpsOf(th))
  /\ NextDispatchOp(th).op = "acq"
  /\ sim.owner[MutexOf(NextDispatchOp(th), sim.thread[th].symbol_index)] = 0
  /\ sim' = [sim EXCEPT
               !.owner[MutexOf(NextDispatchOp(th),
                               sim.thread[th].symbol_index)] = th,
               !.thread[th].pc = @ + 1]
  /\ lastOp' = [op |-> "ACQUIRE", thread |-> th]
  /\ UNCHANGED <<book, checkpoint, nEvents, replay>>

\* a lock_guard destructor; the slow path's follows the store of the flag,
\* the one of sym_lock ends the message
DispatchRelease(th) ==
  /\ sim.thread[th].pc > 0
  /\ sim.thread[th].pc <= Len(OpsOf(th))
  /\ NextDispatchOp(th).op = "rel"
  /\ sim' = [sim EXCEPT
               !.owner[MutexOf(NextDispatchOp(th),
                               sim.thread[th].symbol_index)] = 0,
               !.g_sims_initialized[sim.thread[th].symbol_index] = TRUE,
               !.thread[th].pc = IF @ = Len(OpsOf(th)) THEN 0 ELSE @ + 1]
  /\ lastOp' = [op |-> "RELEASE", thread |-> th]
  /\ UNCHANGED <<book, checkpoint, nEvents, replay>>

NextDispatch ==
  \/ \E th \in Threads : BeginDispatch(th)
  \/ \E th \in Threads : DispatchAcquire(th)
  \/ \E th \in Threads : DispatchRelease(th)

SpecDispatch == InitDispatch /\ [][NextDispatch]_vars

OwnedBy(th) == {mx \in Mutexes : sim.owner[mx] = th}

\* the thread is past the sym_lock of process_xdp_message and has not left
InHandler(th) ==
  sim.thread[th].pc
    > Len(get_or_create_sim_fast_locks(sim.thread[th].slow)) + 1

ShardOf(th) ==
  <<"shard", get_shard_mutex(sim.thread[th].symbol_index), "shard">>

(***************************************************************************)
(* C35: per-symbol mutual exclusion in threaded mode.  A thread inside a   *)
(* symbol's event handler holds the shard mutex symbol_index mod 64, from  *)
(* before ensure_init until the handler returns, and no two threads are    *)
(* inside the handlers of the same symbol at once.                         *)
(***************************************************************************)
C35_PerSymbolExclusion ==
  /\ \A th \in Threads : InHandler(th) => sim.owner[ShardOf(th)] = th
  /\ \A t1 \in Threads, t2 \in Threads :
       (t1 # t2 /\ InHandler(t1) /\ InHandler(t2)) =>
         sim.thread[t1].symbol_index # sim.thread[t2].symbol_index

\* one thread is inside a symbol's handler and another waits at the
\* sym_lock with a message of the same symbol
C35_Witness ==
  \E t1 \in Threads, t2 \in Threads :
    /\ t1 # t2
    /\ InHandler(t1)
    /\ sim.thread[t2].pc > 0
    /\ ~InHandler(t2)
    /\ ~sim.thread[t2].slow
    /\ sim.thread[t1].symbol_index = sim.thread[t2].symbol_index

Rank(kind) == IF kind = "shard" THEN 1 ELSE IF kind = "strategy" THEN 2 ELSE 3

Working(th) == sim.thread[th].pc > 0

CanStep(th) ==
  /\ Working(th)
  /\ sim.thread[th].pc <= Len(OpsOf(th))
  /\ \/ NextDispatchOp(th).op = "rel"
     \/ sim.owner[MutexOf(NextDispatchOp(th), sim.thread[th].symbol_index)] = 0

\* a thread about to lock holds only mutexes earlier in the order
InLockOrder(th) ==
  (Working(th) /\ sim.thread[th].pc <= Len(OpsOf(th))
     /\ NextDispatchOp(th).op = "acq") =>
    \A mx \in OwnedBy(th) : Rank(mx[1]) < Rank(NextDispatchOp(th).kind)

(***************************************************************************)
(* C36: threaded dispatch is deadlock-free.  get_or_create_sim_fast has    *)
(* released the shard mutex before process_xdp_message locks it, nested    *)
(* locks are taken in the order shard, strategy, book, and in no reachable *)
(* state are the working threads all waiting for a lock.                   *)
(***************************************************************************)
C36_DeadlockFree ==
  /\ \A th \in Threads : InLockOrder(th)
  /\ (\E th \in Threads : Working(th)) => \E th \in Threads : CanStep(th)

\* a thread that took the slow path waits at the sym_lock, holding nothing,
\* for a thread that holds shard, strategy and book mutex at once
C36_Witness ==
  \E t1 \in Threads, t2 \in Threads :
    /\ t1 # t2
    /\ sim.thread[t1].slow
    /\ sim.thread[t1].pc = 3
    /\ OwnedBy(t1) = {}
    /\ ~CanStep(t1)
    /\ Cardinality(OwnedBy(t2)) = 3

(***************************************************************************)
(* xdp::ThreadPool (src/src/common/thread_pool.hpp).  A task is the number *)
(* of the enqueue call that was accepted for it.  Each worker runs the     *)
(* loop of the constructor's lambda: wait under queue_mutex_ until stop_   *)
(* or a queued task, return when stop_ and the queue is empty, otherwise   *)
(* pop the front, run it outside the lock, decrement active_tasks_.  The   *)
(* queued closure runs a packaged_task, which keeps what the task throws   *)
(* for the future.  The owner enqueues and destroys the pool; a running    *)
(* task may call enqueue while the destructor joins.                       *)
(***************************************************************************)
NumPoolWorkers == 2
MaxEnqueues == 3

PoolWorkers == 1..NumPoolWorkers
PoolTasks == 1..MaxEnqueues

InitPool ==
  /\ book = EmptyBook
  /\ checkpoint = NoCheckpoint
  /\ nEvents = 0
  /\ replay = NotReplaying
  /\ lastOp = [op |-> "NEW"]
  /\ sim = [phase |-> "pool", tasks_ |-> <<>>, stop_ |-> FALSE,
            active_tasks_ |-> 0,
            worker |-> [w \in PoolWorkers |-> [pc |-> "wait", task |-> 0]],
            accepted |-> 0, taken |-> <<>>,
            runs |-> [t \in PoolTasks |-> 0],
            ran_by |-> [t \in PoolTasks |-> {}],
            destructor |-> "alive"]

\* enqueue: under queue_mutex_, throw when stop_, else count and queue
enqueue(s) ==
  IF s.stop_ THEN s
  ELSE [s EXCEPT !.active_tasks_ = @ + 1,
                 !.accepted = @ + 1,
                 !.tasks_ = Append(@, s.accepted + 1)]

PoolEnqueue ==
  /\ nEvents < MaxEnqueues
  /\ sim.destructor # "returned"
  /\ sim.destructor = "joining" => \E w \in PoolWorkers : sim.worker[w].pc = "run"
  /\ sim' = enqueue(sim)
  /\ lastOp' = [op |-> IF sim.stop_ THEN "THROW" ELSE "ENQUEUE"]
  /\ nEvents' = nEvents + 1
  /\ UNCHANGED <<book, checkpoint, replay>>

\* a worker that returns as soon as stop_ is set
WorkerExit_on_stop(w) ==
  /\ sim.worker[w].pc = "wait"
  /\ sim.stop_
  /\ sim' = [sim EXCEPT !.worker[w].pc = "exited"]
  /\ lastOp' = [op |-> "EXIT", worker |-> w]
  /\ UNCHANGED <<book, checkpoint, nEvents, replay>>

\* the wait is over with stop_ set and nothing queued: the worker returns
WorkerExit(w) ==
  /\ sim.worker[w].pc = "wait"
  /\ sim.stop_ /\ sim.tasks_ = <<>>
  /\ sim' = [sim EXCEPT !.worker[w].pc = "exited"]
  /\ lastOp' = [op |-> "EXIT", worker |-> w]
  /\ UNCHANGED <<book, checkpoint, nEvents, replay>>

\* the wait is over with a task queued: tasks_.front(), tasks_.pop()
WorkerTake(w) ==
  /\ sim.worker[w].pc = "wait"
  /\ sim.tasks_ # <<>>
  /\ sim' = [sim EXCEPT !.worker[w] = [pc |-> "run", task |-> Head(sim.tasks_)],
                        !.tasks_ = Tail(@),
                        !.taken = Append(@, Head(sim.tasks_))]
  /\ lastOp' = [op |-> "TAKE", worker |-> w]
  /\ UNCHANGED <<book, checkpoint, nEvents, replay>>

\* task(), outside the lock
WorkerRun(w) ==
  /\ sim.worker[w].pc = "run"
  /\ sim' = [sim EXCEPT !.worker[w].pc = "ran",
                        !.runs[sim.worker[w].task] = @ + 1,
                        !.ran_by[sim.worker[w].task] = @ \cup {w}]
  /\ lastOp' = [op |-> "RUN", worker |-> w]
  /\ UNCHANGED <<book, checkpoint, nEvents, replay>>

\* active_tasks_--, and back to the wait
WorkerDone(w) ==
  /\ sim.worker[w].pc = "ran"
  /\ sim' = [sim EXCEPT !.worker[w] = [pc |-> "wait", task |-> 0],
                        !.active_tasks_ = @ - 1]
  /\ lastOp' = [op |-> "DONE", worker |-> w]
  /\ UNCHANGED <<book, checkpoint, nEvents, replay>>

\* ~ThreadPool: stop_ = true under the lock, notify_all
PoolStop ==
  /\ sim.destructor = "alive"
  /\ sim' = [sim EXCEPT !.stop_ = TRUE, !.destructor = "joining"]
  /\ lastOp' = [op |-> "STOP"]
  /\ UNCHANGED <<book, checkpoint, nEvents, replay>>

\* ~ThreadPool: every worker.join() has returned
PoolJoin ==
  /\ sim.destructor = "joining"
  /\ \A w \in PoolWorkers : sim.worker[w].pc = "exited"
  /\ sim' = [sim EXCEPT !.destructor = "returned"]
  /\ lastOp' = [op |-> "JOINED"]
  /\ UNCHANGED <<book, checkpoint, nEvents, replay>>

WorkerStep(w) ==
  \/ WorkerTake(w)
  \/ WorkerRun(w)
  \/ WorkerDone(w)
  \/ WorkerExit(w)

NextPool ==
  \/ PoolEnqueue
  \/ \E w \in PoolWorkers : WorkerTake(w)
  \/ \E w \in PoolWorkers : WorkerRun(w)
  \/ \E w \in PoolWorkers : WorkerDone(w)
  \/ \E w \in PoolWorkers : WorkerExit(w)
  \/ PoolStop
  \/ PoolJoin

SpecPool == InitPool /\ [][NextPool]_vars

\* a worker thread that can run is scheduled; the owner's calls are not
\* forced
SpecPoolFair ==
  /\ SpecPool
  /\ \A w \in PoolWorkers : WF_vars(WorkerStep(w))
  /\ WF_vars(PoolJoin)

Accepted(t) == t <= sim.accepted

\* tasks leave the queue in the order they were accepted, and every
\* accepted task is queued, held by one worker, or was run once
TakenInOrder ==
  /\ sim.taken = [i \in 1..Len(sim.taken) |-> i]
  /\ sim.tasks_ = [i \in 1..Len(sim.tasks_) |-> Len(sim.taken) + i]
  /\ Len(sim.taken) + Len(sim.tasks_) = sim.accepted

RunAtMostOnce ==
  \A t \in PoolTasks :
    /\ sim.runs[t] <= 1
    /\ Cardinality(sim.ran_by[t]) = sim.runs[t]
    /\ sim.runs[t] = 1 => Accepted(t)

WorkersLeaveWhenDrained ==
  (\E w \in PoolWorkers : sim.worker[w].pc = "exited") =>
    (sim.stop_ /\ sim.tasks_ = <<>>)

DestructorWaits ==
  sim.destructor = "returned" =>
    /\ \A t \in PoolTasks : Accepted(t) => sim.runs[t] = 1
    /\ sim.active_tasks_ = 0

\* active_tasks_ counts the accepted tasks whose worker has not yet
\* decremented it
ActiveTasksCount ==
  /\ sim.active_tasks_ =
       Len(sim.tasks_)
         + Cardinality({w \in PoolWorkers : sim.worker[w].pc \in {"run", "ran"}})
  /\ (\A t \in PoolTasks : Accepted(t) => sim.runs[t] = 1)
       => sim.active_tasks_
            = Cardinality({w \in PoolWorkers : sim.worker[w].pc = "ran"})

StoppedEnqueueThrows ==
  (lastOp'.op \in {"ENQUEUE", "THROW"}) =>
    IF sim.stop_
    THEN lastOp'.op = "THROW" /\ sim' = sim
    ELSE lastOp'.op = "ENQUEUE" /\ sim'.accepted = sim.accepted + 1

(***************************************************************************)
(* C37: thread pool exactly-once execution.  Every task accepted by        *)
(* enqueue is dequeued in FIFO order and executed exactly once by exactly  *)
(* one worker; workers exit only when stop is set and the queue is empty,  *)
(* so the destructor returns only after every queued task has run;         *)
(* enqueue on a stopped pool throws and queues nothing; and active_tasks   *)
(* returns to 0 once all accepted tasks have finished.                     *)
(***************************************************************************)
C37_ExactlyOnce ==
  /\ [](TakenInOrder /\ RunAtMostOnce /\ WorkersLeaveWhenDrained
          /\ DestructorWaits /\ ActiveTasksCount)
  /\ [][StoppedEnqueueThrows]_vars
  /\ \A t \in PoolTasks : (Accepted(t) ~> sim.runs[t] = 1)
  /\ <>[](sim.active_tasks_ = 0)

\* the destructor has returned after three tasks were accepted and run,
\* both workers having run one
C37_Witness ==
  /\ sim.destructor = "returned"
  /\ sim.accepted = MaxEnqueues
  /\ \A w \in PoolWorkers : \E t \in PoolTasks : sim.ran_by[t] = {w}

(***************************************************************************)
(* The single-threaded run over the messages of two symbols, next to a run *)
(* that is given the messages of the first symbol only, with the           *)
(* timestamps they carry in the full feed.  A slot of g_sims_array holds   *)
(* the simulator of its symbol, its book and its generator, seeded by      *)
(* ensure_init from the configuration seed and the slot's index; both      *)
(* symbols have received their first two ADDs.  Order ids are drawn from   *)
(* the same set for both symbols.  The feed quotes bids at the lower and   *)
(* asks at the higher price, and executes a resting order at its price.    *)
(***************************************************************************)
MaxSymbolEvents == 3
OtherSymbol == 2
SymbolVolume == 150

PairedSymbols == {TwinSymbol, OtherSymbol}

SideAt(price) == IF price = PriceStep THEN "B" ELSE "S"

RestingPrice(b, order_id) ==
  IF Has(b.active_orders_, order_id) THEN b.active_orders_[order_id].price
  ELSE PriceStep

\* the generator a slot's handlers draw from, were it one for all symbols
SymbolRng_shared(table, symbol_index) ==
  [seed |-> table[symbol_index].rng.seed,
   calls |-> table[TwinSymbol].rng.calls + table[OtherSymbol].rng.calls]

\* the generator a slot's handlers draw from: the member rng of its
\* PerSymbolSim
SymbolRng(table, symbol_index) == table[symbol_index].rng

SymbolRun(fill_mode, symbol_index) ==
  [NewRun(fill_mode, DefaultSeed, 0) EXCEPT
     !.rng = SeedRng(DefaultSeed, symbol_index, 0)]

RunAdd(run, order_id, price, volume, side) ==
  [run EXCEPT !.sim = on_add(@, order_id, price, volume, side),
              !.book = add_order(@, order_id, price, volume, side)]

RunModify(run, order_id, price, volume) ==
  [run EXCEPT !.sim = on_modify(@, order_id, price, volume),
              !.book = modify_order(@, order_id, price, volume)]

RunDelete(run, order_id) ==
  [run EXCEPT !.sim = on_delete(@, order_id),
              !.book = delete_order(@, order_id)]

RunReplace(run, old_order_id, new_order_id, price, volume, side) ==
  [run EXCEPT !.sim = on_replace(@, old_order_id, new_order_id, price,
                                 volume, side),
              !.book = add_order(delete_order(@, old_order_id),
                                 new_order_id, price, volume, side)]

\* the simulator get_or_create_sim_fast returns for the index
SlotRun(table, symbol_index) ==
  [table[symbol_index] EXCEPT !.rng = SymbolRng(table, symbol_index)]

InitSymbols ==
  /\ book = EmptyBook
  /\ checkpoint = NoCheckpoint
  /\ nEvents = 0
  /\ replay = NotReplaying
  /\ lastOp = [op |-> "NEW"]
  /\ \E fill_mode \in {"Cross"} :
       sim = [phase |-> "symbols",
              table |-> [idx \in PairedSymbols |-> SymbolRun(fill_mode, idx)],
              alone |-> SymbolRun(fill_mode, TwinSymbol),
              feed_ns |-> SymbolRun(fill_mode, TwinSymbol).sim.clock_ns,
              order |-> <<>>]

\* the full feed delivers to the slot of the index, the reduced feed only
\* what carries TwinSymbol
Routed(symbol_index, in_table, in_alone, now_ns) ==
  [sim EXCEPT !.table[symbol_index] = in_table,
              !.alone = IF symbol_index = TwinSymbol THEN in_alone ELSE @,
              !.feed_ns = now_ns,
              !.order = Append(@, symbol_index)]

SymbolAdd ==
  /\ nEvents < MaxSymbolEvents
  /\ \E symbol_index \in PairedSymbols, order_id \in Ids, price \in Prices :
       /\ sim' = Routed(symbol_index,
                        RunAdd(SlotRun(sim.table, symbol_index), order_id,
                               price, SymbolVolume, SideAt(price)),
                        RunAdd(sim.alone, order_id, price, SymbolVolume,
                               SideAt(price)),
                        sim.feed_ns)
       /\ lastOp' = [op |-> "ADD", symbol_index |-> symbol_index]
  /\ nEvents' = nEvents + 1
  /\ UNCHANGED <<book, checkpoint, replay>>

SymbolModify ==
  /\ nEvents < MaxSymbolEvents
  /\ \E symbol_index \in PairedSymbols, order_id \in Ids, price \in Prices :
       /\ sim' = Routed(symbol_index,
                        RunModify(SlotRun(sim.table, symbol_index), order_id,
                                  price, SymbolVolume),
                        RunModify(sim.alone, order_id, price, SymbolVolume),
                        sim.feed_ns)
       /\ lastOp' = [op |-> "MODIFY", symbol_index |-> symbol_index]
  /\ nEvents' = nEvents + 1
  /\ UNCHANGED <<book, checkpoint, replay>>

SymbolDelete ==
  /\ nEvents < MaxSymbolEvents
  /\ \E symbol_index \in PairedSymbols, order_id \in Ids :
       /\ sim' = Routed(symbol_index,
                        RunDelete(SlotRun(sim.table, symbol_index), order_id),
                        RunDelete(sim.alone, order_id),
                        sim.feed_ns)
       /\ lastOp' = [op |-> "DELETE", symbol_index |-> symbol_index]
  /\ nEvents' = nEvents + 1
  /\ UNCHANGED <<book, checkpoint, replay>>

SymbolReplace ==
  /\ nEvents < MaxSymbolEvents
  /\ \E symbol_index \in PairedSymbols, old_order_id \in Ids,
        new_order_id \in Ids, price \in Prices :
       /\ sim' = Routed(symbol_index,
                        RunReplace(SlotRun(sim.table, symbol_index),
                                   old_order_id, new_order_id, price,
                                   SymbolVolume, SideAt(price)),
                        RunReplace(sim.alone, old_order_id, new_order_id,
                                   price, SymbolVolume, SideAt(price)),
                        sim.feed_ns)
       /\ lastOp' = [op |-> "REPLACE", symbol_index |-> symbol_index]
  /\ nEvents' = nEvents + 1
  /\ UNCHANGED <<book, checkpoint, replay>>

SymbolExecute ==
  /\ nEvents < MaxSymbolEvents
  /\ \E symbol_index \in PairedSymbols, order_id \in Ids,
        step \in TimeSteps, avg_toxicity \in ToxicityDraws :
       /\ sim' = Routed(symbol_index,
                        RunExecute(SlotRun(sim.table, symbol_index),
                                   order_id, SymbolVolume,
                                   RestingPrice(sim.table[symbol_index].book,
                                                order_id),
                                   sim.feed_ns + step, avg_toxicity),
                        RunExecute(sim.alone, order_id, SymbolVolume,
                                   RestingPrice(sim.table[symbol_index].book,
                                                order_id),
                                   sim.feed_ns + step, avg_toxicity),
                        sim.feed_ns + step)
       /\ lastOp' = [op |-> "EXECUTE", symbol_index |-> symbol_index]
  /\ nEvents' = nEvents + 1
  /\ UNCHANGED <<book, checkpoint, replay>>

NextSymbols ==
  \/ SymbolAdd
  \/ SymbolModify
  \/ SymbolDelete
  \/ SymbolReplace
  \/ SymbolExecute

SpecSymbols == InitSymbols /\ [][NextSymbols]_vars

TRADE_WINDOW == 100
SPREAD_WINDOW == 50
MOMENTUM_WINDOW == 50
MaxTrades == 103
MaxQuoteUpdates == 90
Feeds == {1, 2}

Zero == [num |-> 0, den |-> 1]

NewTradeFlowTracker ==
  [buffer |-> [i \in 0..(TRADE_WINDOW - 1) |-> [is_buy |-> FALSE, volume |-> 0]],
   head |-> 0, count |-> 0]

NewSpreadTracker ==
  [buffer |-> [i \in 0..(SPREAD_WINDOW - 1) |-> 0], head |-> 0, count |-> 0]

NewMomentumTracker ==
  [buffer |-> [i \in 0..(MOMENTUM_WINDOW - 1) |-> 0], head |-> 0, count |-> 0]

record_trade(t, is_buy, volume) ==
  [buffer |-> [t.buffer EXCEPT ![t.head] = [is_buy |-> is_buy, volume |-> volume]],
   head |-> (t.head + 1) % TRADE_WINDOW,
   count |-> IF t.count < TRADE_WINDOW THEN t.count + 1 ELSE t.count]

RECURSIVE BufferVolume(_, _, _)
BufferVolume(buffer, n, is_buy) ==
  IF n = 0 THEN 0
  ELSE (IF buffer[n - 1].is_buy = is_buy THEN buffer[n - 1].volume ELSE 0)
         + BufferVolume(buffer, n - 1, is_buy)

get_imbalance(t) ==
  LET buy_vol == BufferVolume(t.buffer, t.count, TRUE)
      sell_vol == BufferVolume(t.buffer, t.count, FALSE)
      total == buy_vol + sell_vol
  IN IF t.count = 0 THEN Zero
     ELSE IF total > 0 THEN [num |-> buy_vol - sell_vol, den |-> total]
     ELSE Zero

record_spread(t, spread) ==
  [buffer |-> [t.buffer EXCEPT ![t.head] = spread],
   head |-> (t.head + 1) % SPREAD_WINDOW,
   count |-> IF t.count < SPREAD_WINDOW THEN t.count + 1 ELSE t.count]

\* a change rate that always takes slot 0 for the oldest value
get_spread_change_rate_from_slot_zero(t) ==
  LET current == t.buffer[(t.head - 1 + SPREAD_WINDOW) % SPREAD_WINDOW]
      oldest == t.buffer[0]
  IN IF t.count < 2 THEN Zero
     ELSE IF oldest > 0 THEN [num |-> current - oldest, den |-> oldest]
     ELSE Zero

\* values are whole micro-dollars: oldest > 1e-10 is oldest > 0
get_spread_change_rate(t) ==
  LET current == t.buffer[(t.head - 1 + SPREAD_WINDOW) % SPREAD_WINDOW]
      oldest_idx == IF t.count < SPREAD_WINDOW THEN 0 ELSE t.head
      oldest == t.buffer[oldest_idx]
  IN IF t.count < 2 THEN Zero
     ELSE IF oldest > 0 THEN [num |-> current - oldest, den |-> oldest]
     ELSE Zero

record_mid(t, mid) ==
  [buffer |-> [t.buffer EXCEPT ![t.head] = mid],
   head |-> (t.head + 1) % MOMENTUM_WINDOW,
   count |-> IF t.count < MOMENTUM_WINDOW THEN t.count + 1 ELSE t.count]

get_momentum(t) ==
  LET current == t.buffer[(t.head - 1 + MOMENTUM_WINDOW) % MOMENTUM_WINDOW]
      oldest_idx == IF t.count < MOMENTUM_WINDOW THEN 0 ELSE t.head
      oldest == t.buffer[oldest_idx]
  IN IF t.count < 2 THEN Zero
     ELSE IF oldest > 0 THEN [num |-> current - oldest, den |-> oldest]
     ELSE Zero

\* the k-th execution of a feed, and the book statistics its k-th quote
\* update reads: an empty side every seventh update, a crossed book every
\* fourth
TradeAt(feed, k) ==
  [is_buy |-> (k % (feed + 1) = 0), volume |-> FillLot * (1 + ((k * feed) % 3))]

StatsAt(feed, k) ==
  IF k % 7 = 0 THEN [spread |-> 0, mid_price |-> 0]
  ELSE IF k % 4 = 0
  THEN [spread |-> -PriceStep, mid_price |-> PriceStep * (10 + ((k * feed) % 5))]
  ELSE [spread |-> PriceStep * (1 + ((k * feed) % 3)),
        mid_price |-> PriceStep * (10 + ((k * feed) % 5))]

InitTrackers ==
  /\ book = EmptyBook
  /\ checkpoint = NoCheckpoint
  /\ nEvents = 0
  /\ replay = NotReplaying
  /\ lastOp = [op |-> "NEW"]
  /\ \E feed \in Feeds :
       sim = [phase |-> "trackers", feed |-> feed,
              trade_flow |-> NewTradeFlowTracker,
              spread_tracker |-> NewSpreadTracker,
              momentum_tracker |-> NewMomentumTracker,
              trades |-> 0, quote_updates |-> 0,
              recorded |-> [trade |-> <<>>, spread |-> <<>>, mid |-> <<>>]]

\* on_execute of a tracked order: trade_flow.record_trade(is_buy, exec_qty)
RecordTrade ==
  /\ sim.trades < MaxTrades
  /\ LET trade == TradeAt(sim.feed, sim.trades + 1)
     IN sim' = [sim EXCEPT
                  !.trade_flow = record_trade(@, trade.is_buy, trade.volume),
                  !.trades = @ + 1,
                  !.recorded.trade = Append(@, trade)]
  /\ lastOp' = [op |-> "TRADE"]
  /\ UNCHANGED <<book, checkpoint, nEvents, replay>>

\* update_quotes: the tracker block
RecordQuoteUpdate ==
  /\ sim.quote_updates < MaxQuoteUpdates
  /\ LET book_stats == StatsAt(sim.feed, sim.quote_updates + 1)
     IN sim' = [sim EXCEPT
                  !.spread_tracker =
                     IF book_stats.spread > 0
                     THEN record_spread(@, book_stats.spread) ELSE @,
                  !.momentum_tracker =
                     IF book_stats.mid_price > 0
                     THEN record_mid(@, book_stats.mid_price) ELSE @,
                  !.quote_updates = @ + 1,
                  !.recorded.spread =
                     IF book_stats.spread > 0
                     THEN Append(@, book_stats.spread) ELSE @,
                  !.recorded.mid =
                     IF book_stats.mid_price > 0
                     THEN Append(@, book_stats.mid_price) ELSE @]
  /\ lastOp' = [op |-> "QUOTES"]
  /\ UNCHANGED <<book, checkpoint, nEvents, replay>>

NextTrackers ==
  \/ RecordTrade
  \/ RecordQuoteUpdate

SpecTrackers == InitTrackers /\ [][NextTrackers]_vars

\* the last min(n, window) values handed to a tracker, oldest first
Recent(values, window) ==
  SubSeq(values, Max2(1, Len(values) - window + 1), Len(values))

\* what a tracker holds, oldest first
Retained(t, window) ==
  [i \in 1..t.count |->
     t.buffer[IF t.count < window THEN i - 1 ELSE (t.head + i - 1) % window]]

RECURSIVE TradeVolume(_, _)
TradeVolume(trades, is_buy) ==
  IF trades = <<>> THEN 0
  ELSE (IF Head(trades).is_buy = is_buy THEN Head(trades).volume ELSE 0)
         + TradeVolume(Tail(trades), is_buy)

\* (newest - oldest) / oldest over the values given, 0 when fewer than two
\* or the oldest is not positive
ChangeRate(values) ==
  IF Len(values) < 2 THEN Zero
  ELSE IF values[1] > 0
  THEN [num |-> values[Len(values)] - values[1], den |-> values[1]]
  ELSE Zero

Imbalance(trades) ==
  IF TradeVolume(trades, TRUE) + TradeVolume(trades, FALSE) > 0
  THEN [num |-> TradeVolume(trades, TRUE) - TradeVolume(trades, FALSE),
        den |-> TradeVolume(trades, TRUE) + TradeVolume(trades, FALSE)]
  ELSE Zero

(***************************************************************************)
(* C39: ring-buffer trackers keep exactly the most recent window.  After n *)
(* record calls a tracker holds the last min(n, WINDOW) recorded values;   *)
(* spread_change_rate and momentum compare the newest recorded value with  *)
(* the oldest still retained (0 with fewer than 2 values or an oldest of   *)
(* about 0), and trade_flow_imbalance sums the last min(n, 100) recorded   *)
(* trades (0 when empty).                                                  *)
(***************************************************************************)
C39_RecentWindow ==
  /\ Retained(sim.trade_flow, TRADE_WINDOW)
       = Recent(sim.recorded.trade, TRADE_WINDOW)
  /\ Retained(sim.spread_tracker, SPREAD_WINDOW)
       = Recent(sim.recorded.spread, SPREAD_WINDOW)
  /\ Retained(sim.momentum_tracker, MOMENTUM_WINDOW)
       = Recent(sim.recorded.mid, MOMENTUM_WINDOW)
  /\ get_spread_change_rate(sim.spread_tracker)
       = ChangeRate(Recent(sim.recorded.spread, SPREAD_WINDOW))
  /\ get_momentum(sim.momentum_tracker)
       = ChangeRate(Recent(sim.recorded.mid, MOMENTUM_WINDOW))
  /\ get_imbalance(sim.trade_flow)
       = Imbalance(Recent(sim.recorded.trade, TRADE_WINDOW))

\* every tracker has wrapped, and the oldest retained spread differs from
\* the first one recorded and from the one in slot 0
C39_Witness ==
  /\ Len(sim.recorded.trade) > TRADE_WINDOW
  /\ Len(sim.recorded.spread) > SPREAD_WINDOW + 1
  /\ Len(sim.recorded.mid) > MOMENTUM_WINDOW + 1
  /\ Recent(sim.recorded.spread, SPREAD_WINDOW)[1] # sim.recorded.spread[1]
  /\ Recent(sim.recorded.spread, SPREAD_WINDOW)[1] # sim.spread_tracker.buffer[0]
  /\ get_imbalance(sim.trade_flow).num # 0
  /\ get_spread_change_rate(sim.spread_tracker).num # 0
  /\ get_momentum(sim.momentum_tracker).num # 0


(***************************************************************************)
(* Checkpointed playback of the visualizer (src/src/visualizer_pcap.cpp).  *)
(*                                                                         *)
(* The feed thread's updates are stored in playback_buffer and applied to  *)
(* order_book by apply_batched_updates, which takes a checkpoint of the    *)
(* book every CHECKPOINT_INTERVAL stored updates; the timeline slider      *)
(* calls apply_playback_to_index.  The buffer starts with WarmUp, a feed   *)
(* that adds and cancels one order in turn and stops one update short of   *)
(* the first checkpoint; the state keeps the updates stored after it.      *)
(* Indices into playback_buffer are the source's, from 0; the sequences    *)
(* are indexed from 1.                                                     *)
(***************************************************************************)
CHECKPOINT_INTERVAL == 10000
MaxLiveUpdates == 2

WarmUpLen == CHECKPOINT_INTERVAL - 1

WarmUp ==
  [i \in 1..WarmUpLen |->
     IF i % 2 = 1
     THEN [type |-> "ADD", order_id |-> 1, price |-> PriceStep,
           volume |-> VolStep, side |-> "B"]
     ELSE [type |-> "DELETE", order_id |-> 1]]

LiveUpdates ==
  {[type |-> "ADD", order_id |-> MaxId, price |-> PriceStep,
    volume |-> MaxVolIdx * VolStep, side |-> "B"],
   [type |-> "MODIFY", order_id |-> MaxId, price |-> PriceStep,
    volume |-> VolStep],
   [type |-> "DELETE", order_id |-> MaxId],
   [type |-> "EXECUTE", order_id |-> MaxId, price |-> PriceStep,
    volume |-> VolStep],
   [type |-> "REPLACE", order_id |-> MaxId, new_order_id |-> MaxId,
    price |-> MaxPriceIdx * PriceStep, volume |-> VolStep, side |-> "S"]}

\* the replay loop: buffer[lo..hi] applied to b in order (the range is
\* halved and the first half's book is bound before the second half is
\* applied, so that the evaluation of a long replay stays shallow)
RECURSIVE ReplayRange(_, _, _, _)
ReplayRange(b, buffer, lo, hi) ==
  IF lo > hi THEN b
  ELSE IF lo = hi THEN ApplyUpdate(b, buffer[lo])
  ELSE LET mid == (lo + hi) \div 2
       IN CHOOSE replayed \in
            {ReplayRange(first_half, buffer, mid + 1, hi) :
               first_half \in {ReplayRange(b, buffer, lo, mid)}} : TRUE

playback_buffer(s) == WarmUp \o s.live

\* the last checkpoint with update_index <= idx, 0 when there is none
RECURSIVE NearestCheckpoint(_, _, _)
NearestCheckpoint(checkpoints, idx, i) ==
  IF i = 0 THEN 0
  ELSE IF checkpoints[i].update_index <= idx THEN i
  ELSE NearestCheckpoint(checkpoints, idx, i - 1)

apply_playback_to_index(b, s, target) ==
  LET buffer == playback_buffer(s)
      idx == IF target > Len(buffer) THEN Len(buffer) ELSE target
      nearest == NearestCheckpoint(s.checkpoints, idx, Len(s.checkpoints))
      start_from == IF nearest = 0 THEN 0
                    ELSE s.checkpoints[nearest].update_index
      restored == IF nearest = 0 THEN clear(b)
                  ELSE LET snap == s.checkpoints[nearest].snap
                       IN restore_from_snapshot(b, snap.bids, snap.asks,
                                                snap.active_orders)
  IN [book |-> ReplayRange(restored, buffer, start_from + 1, idx),
      playback_index |-> idx]

SeekTargets ==
  {0, CHECKPOINT_INTERVAL - 1, CHECKPOINT_INTERVAL, CHECKPOINT_INTERVAL + 1}

InitSeek ==
  /\ book = ReplayRange(EmptyBook, WarmUp, 1, WarmUpLen)
  /\ checkpoint = NoCheckpoint
  /\ nEvents = 0
  /\ replay = NotReplaying
  /\ lastOp = [op |-> "NEW"]
  /\ sim = [phase |-> "live", live |-> <<>>, checkpoints |-> <<>>,
            playback_index |-> 0]

\* apply_batched_updates with one update in the batch: the update is
\* stored, the checkpoint is taken when the stored count is a multiple of
\* the interval, and then the update is applied
ApplyBatchedUpdate ==
  /\ sim.phase = "live"
  /\ Len(sim.live) < MaxLiveUpdates
  /\ \E next_update \in LiveUpdates :
       LET current_index == Len(playback_buffer(sim)) + 1
       IN /\ sim' = [sim EXCEPT
                       !.live = Append(@, next_update),
                       !.checkpoints =
                          IF current_index % CHECKPOINT_INTERVAL = 0
                          THEN Append(@, [update_index |-> current_index,
                                          snap |-> get_atomic_snapshot(book)])
                          ELSE @]
          /\ book' = ApplyUpdate(book, next_update)
          /\ lastOp' = Performed(next_update)
  /\ UNCHANGED <<checkpoint, nEvents, replay>>

\* the slider released at a position
Seek ==
  /\ \E target \in SeekTargets :
       LET r == apply_playback_to_index(book, sim, target)
       IN /\ book' = r.book
          /\ sim' = [sim EXCEPT !.phase = "playback",
                                !.playback_index = r.playback_index]
          /\ lastOp' = [op |-> "SEEK", target |-> target]
  /\ UNCHANGED <<checkpoint, nEvents, replay>>

NextSeek ==
  \/ ApplyBatchedUpdate
  \/ Seek

SpecSeek == InitSeek /\ [][NextSeek]_vars

SameLaddersAndOrders(a, b) ==
  /\ a.bids_ = b.bids_
  /\ a.asks_ = b.asks_
  /\ a.active_orders_ = b.active_orders_
  /\ a.total_bid_volume_ = b.total_bid_volume_
  /\ a.total_ask_volume_ = b.total_ask_volume_

\* the book cleared and playback_buffer[0, idx) applied in order
FullReplay(b, s, idx) == ReplayRange(clear(b), playback_buffer(s), 1, idx)

\* C40: after a seek to update index idx (the nearest checkpoint at or
\* before idx restored, the buffered updates from its index up to idx
\* replayed) the book has the ladders, the order-id table and the running
\* totals of the book cleared and the buffered updates [0, idx) applied in
\* order.
C40_SeekEqualsFullReplay ==
  lastOp.op = "SEEK" =>
    SameLaddersAndOrders(book, FullReplay(book, sim, sim.playback_index))

====
